---- MODULE Spec2Model ----
(***************************************************************************)
(* AgriNathi: the advice retrieval engine (AgricultureMLService) and the   *)
(* voice query pipeline (VoiceRecognition.process_audio).                  *)
(*                                                                         *)
(* A text is a sequence of pieces; the text it stands for is the           *)
(* concatenation of the pieces.  Queries and transcripts are sequences of  *)
(* single characters, so that substring tests, lower() and strip() are     *)
(* computed on characters.  Fixed messages and knowledge-item fields are   *)
(* whole-string pieces.  Similarities and confidences are scaled by 100.   *)
(***************************************************************************)
EXTENDS Integers, Sequences, FiniteSets, TLC

(***************************************************************************)
(* Bounds of the model.                                                    *)
(***************************************************************************)
MaxWords == 2
MaxHits == 2
MaxPipelineHits == 1
MaxCalls == 2

(***************************************************************************)
(* Text helpers (str.lower, str.strip, the `in` substring operator).       *)
(***************************************************************************)
UpperChars == <<"A","B","C","D","E","F","G","H","I","J","K","L","M",
                "N","O","P","Q","R","S","T","U","V","W","X","Y","Z">>

LowerChars == <<"a","b","c","d","e","f","g","h","i","j","k","l","m",
                "n","o","p","q","r","s","t","u","v","w","x","y","z">>

LowerChar(c) ==
    IF \E i \in 1..Len(UpperChars) : UpperChars[i] = c
    THEN LowerChars[CHOOSE i \in 1..Len(UpperChars) : UpperChars[i] = c]
    ELSE c

Lower(t) == [i \in 1..Len(t) |-> LowerChar(t[i])]

IsBlank(t) == \A i \in 1..Len(t) : t[i] = " "

Strip(t) ==
    IF IsBlank(t) THEN <<>>
    ELSE LET first == CHOOSE i \in 1..Len(t) :
                          t[i] # " " /\ \A j \in 1..(i - 1) : t[j] = " "
             last  == CHOOSE i \in 1..Len(t) :
                          t[i] # " " /\ \A j \in (i + 1)..Len(t) : t[j] = " "
         IN  SubSeq(t, first, last)

Contains(t, w) ==
    \E i \in 1..(Len(t) - Len(w) + 1) : SubSeq(t, i, i + Len(w) - 1) = w

RECURSIVE JoinWith(_, _)
JoinWith(parts, sep) ==
    IF Len(parts) = 0 THEN <<>>
    ELSE IF Len(parts) = 1 THEN parts[1]
    ELSE parts[1] \o sep \o JoinWith(Tail(parts), sep)

(***************************************************************************)
(* The knowledge base (AgricultureMLService._load_knowledge_base).         *)
(***************************************************************************)
CategoryOrder ==
    <<"diseases", "pests", "fertilizers", "watering", "planting",
      "weather", "soil", "general">>

LeafBlight ==
    [name |-> "Leaf Blight",
     symptoms |-> <<"brown spots on leaves", "yellowing leaves", "leaf drop">>,
     causes |-> <<"fungal infection", "high humidity", "poor air circulation">>,
     solutions |-> <<"Remove affected leaves", "Improve air circulation",
                     "Apply copper-based fungicide", "Avoid overhead watering">>]

RootRot ==
    [name |-> "Root Rot",
     symptoms |-> <<"wilting plants", "yellow leaves", "soft rotten roots">>,
     causes |-> <<"overwatering", "poor drainage", "fungal pathogens">>,
     solutions |-> <<"Improve drainage", "Reduce watering frequency",
                     "Use well-draining soil", "Apply fungicide to soil">>]

Aphids ==
    [name |-> "Aphids",
     symptoms |-> <<"sticky leaves", "distorted growth", "ants on plants">>,
     solutions |-> <<"Spray with soapy water", "Introduce ladybugs",
                     "Use neem oil", "Remove heavily infested parts">>]

Cutworms ==
    [name |-> "Cutworms",
     symptoms |-> <<"seedlings cut at base", "plants falling over">>,
     solutions |-> <<"Use collars around seedlings", "Hand pick at night",
                     "Apply beneficial nematodes", "Use organic pesticides">>]

NPKFertilizer ==
    [name |-> "NPK Fertilizer",
     type |-> "balanced",
     usage |-> <<"Apply during growing season", "Mix with soil",
                 "Water after application">>,
     benefits |-> <<"Promotes overall plant growth",
                    "Improves fruit/seed production",
                    "Strengthens root system">>]

OrganicCompost ==
    [name |-> "Organic Compost",
     type |-> "organic",
     usage |-> <<"Mix into topsoil", "Apply around plants", "Use as mulch">>,
     benefits |-> <<"Improves soil structure",
                    "Provides slow-release nutrients",
                    "Enhances microbial activity">>]

WateringAdvice ==
    [advice |-> "Water deeply but infrequently to encourage deep root growth",
     tips |-> <<"Water early morning or evening",
                "Check soil moisture before watering",
                "Avoid wetting leaves", "Use drip irrigation when possible">>]

MaizePlanting ==
    [crop |-> "Maize",
     season |-> "Summer rainfall areas: October-November",
     spacing |-> "90cm between rows, 30-45cm between plants",
     depth |-> "3-5cm deep",
     tips |-> <<"Plant after soil temperature reaches 10C",
                "Ensure good seed-to-soil contact",
                "Plant in blocks for better pollination">>]

(* Entries the optional data/pest_disease_info.json can hold; their list  *)
(* fields hold strings, as ', '.join needs.                                *)
FileDisease ==
    [type |-> "disease",
     name |-> "Maize Rust",
     solutions |-> <<"Plant resistant varieties", "Apply fungicide early">>]

FilePest ==
    [type |-> "pest",
     name |-> "Stalk Borer",
     symptoms |-> <<"holes in stalks">>,
     solutions |-> <<"Destroy crop residue">>]

FileOther ==
    [type |-> "weed",
     name |-> "Blackjack"]

(* The states of data/pest_disease_info.json at service construction:     *)
(* missing, unreadable (json.load raises), or a list of entries.          *)
PestDiseaseFiles ==
    { [exists |-> FALSE, readable |-> FALSE, data |-> <<>>],
      [exists |-> TRUE,  readable |-> FALSE, data |-> <<>>],
      [exists |-> TRUE,  readable |-> TRUE,
       data |-> <<FilePest, FileOther, FileDisease>>] }

RECURSIVE ItemsOfType(_, _)
ItemsOfType(data, ty) ==
    IF Len(data) = 0 THEN <<>>
    ELSE IF "type" \in DOMAIN Head(data) /\ Head(data).type = ty
         THEN <<Head(data)>> \o ItemsOfType(Tail(data), ty)
         ELSE ItemsOfType(Tail(data), ty)

(* The loader keeping the file's entries of any other type under general. *)
load_knowledge_base_keeps_others(file) ==
    LET loaded == file.exists /\ file.readable
        fromFile(ty) == IF loaded THEN ItemsOfType(file.data, ty) ELSE <<>>
    IN  [diseases    |-> fromFile("disease") \o <<LeafBlight, RootRot>>,
         pests       |-> fromFile("pest") \o <<Aphids, Cutworms>>,
         fertilizers |-> <<NPKFertilizer, OrganicCompost>>,
         watering    |-> <<WateringAdvice>>,
         planting    |-> <<MaizePlanting>>,
         weather     |-> <<>>,
         soil        |-> <<>>,
         general     |-> fromFile("weed")]

load_knowledge_base(file) ==
    LET loaded == file.exists /\ file.readable
        fromFile(ty) == IF loaded THEN ItemsOfType(file.data, ty) ELSE <<>>
    IN  [diseases    |-> fromFile("disease") \o <<LeafBlight, RootRot>>,
         pests       |-> fromFile("pest") \o <<Aphids, Cutworms>>,
         fertilizers |-> <<NPKFertilizer, OrganicCompost>>,
         watering    |-> <<WateringAdvice>>,
         planting    |-> <<MaizePlanting>>,
         weather     |-> <<>>,
         soil        |-> <<>>,
         general     |-> <<>>]

KnowledgeBases == { load_knowledge_base(f) : f \in PestDiseaseFiles }

(* The items in the order `for category, items in knowledge_base.items()` *)
(* then `for item in items` visits them.                                  *)
RECURSIVE ItemsFrom(_, _)
ItemsFrom(kb, c) ==
    IF c > Len(CategoryOrder) THEN <<>>
    ELSE [i \in 1..Len(kb[CategoryOrder[c]]) |->
             [category |-> CategoryOrder[c], solution |-> kb[CategoryOrder[c]][i]]]
         \o ItemsFrom(kb, c + 1)

AllItems(kb) == ItemsFrom(kb, 1)

(***************************************************************************)
(* find_solution: direct keyword stage, then similarity stage.             *)
(***************************************************************************)
keywords ==
  << [keyword |-> <<"d","i","s","e","a","s","e">>, category |-> "diseases"],
     [keyword |-> <<"d","i","s","e","a","s","e","d">>, category |-> "diseases"],
     [keyword |-> <<"s","i","c","k">>, category |-> "diseases"],
     [keyword |-> <<"i","n","f","e","c","t","i","o","n">>, category |-> "diseases"],
     [keyword |-> <<"f","u","n","g","u","s">>, category |-> "diseases"],
     [keyword |-> <<"b","l","i","g","h","t">>, category |-> "diseases"],
     [keyword |-> <<"r","o","t">>, category |-> "diseases"],
     [keyword |-> <<"p","e","s","t">>, category |-> "pests"],
     [keyword |-> <<"i","n","s","e","c","t">>, category |-> "pests"],
     [keyword |-> <<"b","u","g">>, category |-> "pests"],
     [keyword |-> <<"a","p","h","i","d">>, category |-> "pests"],
     [keyword |-> <<"w","o","r","m">>, category |-> "pests"],
     [keyword |-> <<"f","e","r","t","i","l","i","z","e","r">>, category |-> "fertilizers"],
     [keyword |-> <<"m","a","n","u","r","e">>, category |-> "fertilizers"],
     [keyword |-> <<"c","o","m","p","o","s","t">>, category |-> "fertilizers"],
     [keyword |-> <<"w","a","t","e","r">>, category |-> "watering"],
     [keyword |-> <<"w","a","t","e","r","i","n","g">>, category |-> "watering"],
     [keyword |-> <<"i","r","r","i","g","a","t","i","o","n">>, category |-> "watering"],
     [keyword |-> <<"p","l","a","n","t">>, category |-> "planting"],
     [keyword |-> <<"s","e","e","d">>, category |-> "planting"],
     [keyword |-> <<"s","o","w">>, category |-> "planting"],
     [keyword |-> <<"m","a","i","z","e">>, category |-> "planting"],
     [keyword |-> <<"c","o","r","n">>, category |-> "planting"] >>

DIRECT_CONFIDENCE == 80

SIM_THRESHOLD == 10

(* Python's None for a find_solution result. *)
NoMatch == [category |-> "none", solution |-> [name |-> "none"], confidence |-> 0]

IsMatch(m) == m.category # "none"

(* The scan of the table decided by where a trigger stands in the query:   *)
(* the trigger occurring leftmost in the query wins.                       *)
FirstPos(t, w) ==
    CHOOSE i \in 1..(Len(t) - Len(w) + 1) :
        /\ SubSeq(t, i, i + Len(w) - 1) = w
        /\ \A j \in 1..(i - 1) : SubSeq(t, j, j + Len(w) - 1) # w

direct_scan_by_position(kb, query, k) ==
    LET found == { n \in k..Len(keywords) :
                     /\ Contains(query, keywords[n].keyword)
                     /\ Len(kb[keywords[n].category]) > 0 }
    IN  IF found = {} THEN NoMatch
        ELSE LET n == CHOOSE m \in found : \A o \in found :
                          \/ FirstPos(query, keywords[m].keyword)
                                 < FirstPos(query, keywords[o].keyword)
                          \/ /\ FirstPos(query, keywords[m].keyword)
                                 = FirstPos(query, keywords[o].keyword)
                             /\ m <= o
             IN  [category   |-> keywords[n].category,
                  solution   |-> kb[keywords[n].category][1],
                  confidence |-> DIRECT_CONFIDENCE]

RECURSIVE direct_scan(_, _, _)
direct_scan(kb, query, k) ==
    IF k > Len(keywords) THEN NoMatch
    ELSE IF Contains(query, keywords[k].keyword)
            /\ Len(kb[keywords[k].category]) > 0
         THEN [category   |-> keywords[k].category,
               solution   |-> kb[keywords[k].category][1],
               confidence |-> DIRECT_CONFIDENCE]
         ELSE direct_scan(kb, query, k + 1)

direct_keyword_match(kb, query) == direct_scan(kb, query, 1)

(* The loop with `similarity >= best_score`: the last of equal items wins. *)
RECURSIVE similarity_scan_last_wins(_, _, _, _, _)
similarity_scan_last_wins(items, sims, i, best_match, best_score) ==
    IF i > Len(items) THEN best_match
    ELSE IF sims[i] >= best_score /\ sims[i] > SIM_THRESHOLD
         THEN similarity_scan_last_wins(items, sims, i + 1,
                  [category   |-> items[i].category,
                   solution   |-> items[i].solution,
                   confidence |-> sims[i]],
                  sims[i])
         ELSE similarity_scan_last_wins(items, sims, i + 1, best_match, best_score)

(* The loop of _ml_similarity_match over the items; sims[i] is the cosine  *)
(* similarity (x100) that sklearn reports for the i-th item.               *)
RECURSIVE similarity_scan(_, _, _, _, _)
similarity_scan(items, sims, i, best_match, best_score) ==
    IF i > Len(items) THEN best_match
    ELSE IF sims[i] > best_score /\ sims[i] > SIM_THRESHOLD
         THEN similarity_scan(items, sims, i + 1,
                  [category   |-> items[i].category,
                   solution   |-> items[i].solution,
                   confidence |-> sims[i]],
                  sims[i])
         ELSE similarity_scan(items, sims, i + 1, best_match, best_score)

(* raised: the sklearn call (vectorizer.transform / cosine_similarity)    *)
(* raised, which the method catches and turns into None.                   *)
ml_similarity_match(kb, sims, raised) ==
    IF raised THEN NoMatch
    ELSE similarity_scan(AllItems(kb), sims, 1, NoMatch, 0)

(* query.strip() alone: the lower() of line 123 forgotten. *)
normalize_no_lower(query) == Strip(query)

(* find_solution line 123: query.lower().strip() *)
normalize(query) == Strip(Lower(query))

find_solution(kb, query, sims, raised) ==
    LET normalized == normalize(query)
        direct_match == direct_keyword_match(kb, normalized)
    IN  IF IsMatch(direct_match) THEN direct_match
        ELSE ml_similarity_match(kb, sims, raised)

(***************************************************************************)
(* generate_advice_text: keyword classes in priority order, a random       *)
(* tracking number and a random variant of the class.                      *)
(***************************************************************************)
ADVICE_NUMBER_MIN == 1000

ADVICE_NUMBER_MAX == 9999

advice_classes ==
  << [class |-> "disease",
      words |-> << <<"d","i","s","e","a","s","e">>,
                   <<"d","i","s","e","a","s","e","d">>, <<"s","i","c","k">>,
                   <<"i","n","f","e","c","t","i","o","n">>,
                   <<"f","u","n","g","u","s">>, <<"b","l","i","g","h","t">>,
                   <<"r","o","t">>, <<"z","i","f","o">> >>,
      lead  |-> "For plant diseases, ",
      variants |-> <<"Remove affected leaves and improve air circulation",
                     "Apply copper-based fungicide spray",
                     "Use organic neem oil solution",
                     "Ensure proper plant spacing to reduce humidity">>,
      tail  |-> ". Monitor regularly and consult extension services if condition worsens."],
     [class |-> "pest",
      words |-> << <<"p","e","s","t">>, <<"i","n","s","e","c","t">>,
                   <<"b","u","g">>, <<"a","p","h","i","d">>, <<"w","o","r","m">>,
                   <<"n","a","m","b","u","z","a","n","e">> >>,
      lead  |-> "For pest control, ",
      variants |-> <<"Use soapy water spray to remove pests",
                     "Introduce beneficial ladybugs to control aphids",
                     "Apply diatomaceous earth around plants",
                     "Use row covers to protect young plants">>,
      tail  |-> ". Regular monitoring is essential for effective management."],
     [class |-> "watering",
      words |-> << <<"w","a","t","e","r">>, <<"w","a","t","e","r","i","n","g">>,
                   <<"n","i","s","e","l","a">> >>,
      lead  |-> "For watering, ",
      variants |-> <<"Water deeply but infrequently to encourage deep roots",
                     "Water early morning to reduce evaporation",
                     "Check soil moisture 2 inches deep before watering",
                     "Use drip irrigation for consistent moisture">>,
      tail  |-> ". Proper watering prevents both drought stress and root rot."],
     [class |-> "fertilizer",
      words |-> << <<"f","e","r","t","i","l","i","z","e","r">>,
                   <<"m","a","n","u","r","e">>, <<"c","o","m","p","o","s","t">>,
                   <<"u","m","a","n","y","o","l","o">> >>,
      lead  |-> "For fertilization, ",
      variants |-> <<"Use balanced NPK fertilizer during growing season",
                     "Apply organic compost around plant bases",
                     "Test soil pH before fertilizing",
                     "Use slow-release fertilizers for steady nutrition">>,
      tail  |-> ". Regular soil testing ensures optimal nutrient balance."],
     [class |-> "planting",
      words |-> << <<"p","l","a","n","t">>, <<"s","e","e","d">>, <<"s","o","w">>,
                   <<"i","m","b","e","w","u">> >>,
      lead  |-> "For planting, ",
      variants |-> <<"Plant during correct season for best germination",
                     "Ensure proper seed-to-soil contact",
                     "Space plants according to variety requirements",
                     "Keep soil consistently moist until germination">>,
      tail  |-> ". Proper planting techniques maximize crop success."],
     [class |-> "weather",
      words |-> << <<"w","e","a","t","h","e","r">>, <<"r","a","i","n">>,
                   <<"s","u","n">>,
                   <<"i","s","i","m","o"," ","s","e","z","u","l","u">> >>,
      lead  |-> "For weather considerations, ",
      variants |-> <<"Monitor weather forecasts for planting decisions",
                     "Protect crops from frost using covers",
                     "Prepare drainage for heavy rain periods",
                     "Use windbreaks in exposed areas">>,
      tail  |-> ". Weather adaptation improves crop resilience."],
     [class |-> "soil",
      words |-> << <<"s","o","i","l">>, <<"g","r","o","u","n","d">>,
                   <<"e","a","r","t","h">>, <<"u","m","h","l","a","b","a">> >>,
      lead  |-> "For soil management, ",
      variants |-> <<"Test soil pH regularly for optimal fertility",
                     "Add organic matter to improve soil structure",
                     "Practice crop rotation to maintain soil health",
                     "Use cover crops to prevent erosion">>,
      tail  |-> ". Healthy soil is the foundation of successful farming."] >>

general_class ==
    [class |-> "general",
     words |-> <<>>,
     lead  |-> "",
     variants |-> <<"Practice sustainable farming methods",
                    "Monitor crops regularly for early problem detection",
                    "Maintain soil health through organic practices",
                    "Seek local extension services for specific guidance",
                    "Keep detailed farming records for better planning",
                    "Use integrated pest management approaches">>,
     tail  |-> ". Consistent good practices lead to better farming outcomes."]

AnyWordIn(words, t) == \E i \in 1..Len(words) : Contains(t, words[i])

RECURSIVE classify_from(_, _)
classify_from(query_lower, c) ==
    IF c > Len(advice_classes) THEN general_class
    ELSE IF AnyWordIn(advice_classes[c].words, query_lower)
         THEN advice_classes[c]
         ELSE classify_from(query_lower, c + 1)

(* The chain on the query as given, without lower(). *)
advice_class_no_lower(q) == classify_from(q, 1)

(* The if/elif chain of generate_advice_text on query.lower(). *)
advice_class(q) == classify_from(Lower(q), 1)

(* advice_number is the value of random.randint, pick the index that       *)
(* random.choice draws in the list of the class.                           *)
generate_advice_text(q, advice_number, pick) ==
    LET c == advice_class(q)
    IN  <<"Advice #", ToString(advice_number), ": ">>
        \o (IF c.lead = "" THEN <<>> ELSE <<c.lead>>)
        \o <<c.variants[pick], c.tail>>

(***************************************************************************)
(* VoiceRecognition._generate_keyword_advice: the isiZulu keyword table,   *)
(* then the advice generator, then the default advice texts.               *)
(***************************************************************************)
advice_map ==
  << [keyword |-> <<"i","z","i","t","s","h","a","l","o">>, priority |-> 1,
      advice |-> "For plant care: Ensure proper watering, use organic fertilizers, and monitor for pests regularly. Regular soil testing helps maintain optimal nutrient levels."],
     [keyword |-> <<"z","i","f","o">>, priority |-> 1,
      advice |-> "For plant diseases: Remove affected leaves immediately, improve air circulation, and use copper-based fungicides. Early detection prevents spread to healthy plants."],
     [keyword |-> <<"n","a","m","b","u","z","a","n","e">>, priority |-> 1,
      advice |-> "For pest control: Use neem oil spray, introduce beneficial insects, and practice proper crop rotation. Integrated pest management reduces chemical dependency."],
     [keyword |-> <<"n","i","s","e","l","a">>, priority |-> 2,
      advice |-> "Watering advice: Water deeply but infrequently, early morning is best, avoid wetting leaves to prevent fungal diseases. Use drip irrigation for water efficiency."],
     [keyword |-> <<"u","m","a","n","y","o","l","o">>, priority |-> 2,
      advice |-> "Fertilizer guidance: Use balanced NPK fertilizer, apply during growing season, test soil pH first. Organic compost improves soil structure and microbial activity."],
     [keyword |-> <<"i","m","b","e","w","u">>, priority |-> 2,
      advice |-> "Seed planting: Plant during correct season, ensure proper spacing, keep soil moist until germination. Use certified seeds for better yields."],
     [keyword |-> <<"i","s","i","m","o"," ","s","e","z","u","l","u">>, priority |-> 2,
      advice |-> "Weather considerations: Monitor forecasts, protect crops from frost, prepare drainage for heavy rain. Climate-smart agriculture adapts to changing weather patterns."],
     [keyword |-> <<"k","h","u","n","i">>, priority |-> 3,
      advice |-> "Maize care: Plant in well-drained soil, fertilize regularly, watch for corn borer and rust diseases. Harvest at 20-25% moisture content for optimal storage."],
     [keyword |-> <<"u","t","s","h","a","n","i">>, priority |-> 3,
      advice |-> "Weed control: Use mulching, hand weeding, or organic herbicides. Prevent weed competition for nutrients. Mechanical cultivation disrupts weed growth cycles."],
     [keyword |-> <<"u","m","h","l","a","b","a">>, priority |-> 3,
      advice |-> "Soil management: Test soil pH regularly, add organic matter, practice conservation tillage. Healthy soil is the foundation of successful farming."],
     [keyword |-> <<"i","s","i","v","u","n","o">>, priority |-> 3,
      advice |-> "Harvesting: Harvest at correct maturity, use proper tools, store in cool dry place. Post-harvest handling affects final product quality."],
     [keyword |-> <<"i","z","i","l","w","a","n","e">>, priority |-> 3,
      advice |-> "Livestock care: Provide clean water, balanced feed, regular health checks, proper housing. Animal health directly impacts farm productivity."] >>

default_advices ==
  <<"General farming advice: Practice sustainable agriculture, monitor your crops regularly, maintain soil health, and seek local extension services for specific guidance. Sustainable farming practices ensure long-term productivity and environmental health.",
    "Farming best practices: Ensure proper crop rotation, use organic fertilizers when possible, maintain adequate soil moisture, and regularly inspect plants for pests and diseases. Early intervention prevents major crop losses.",
    "Agricultural recommendations: Test your soil pH annually, apply balanced fertilizers based on soil test results, practice integrated pest management, and keep detailed records of your farming activities for better planning.",
    "Crop management guidance: Monitor weather patterns closely, protect young plants from extreme conditions, use certified seeds, and maintain proper plant spacing for optimal growth and disease prevention.">>

ML_ADVICE_MIN_LEN == 20

LONG_QUERY_WORDS == 3

(* len(text) of a text given as pieces. *)
RECURSIVE TextLen(_)
TextLen(t) == IF Len(t) = 0 THEN 0 ELSE Len(Head(t)) + TextLen(Tail(t))

(* len(text.split()): the number of maximal runs of non-space characters. *)
WordCount(t) ==
    Cardinality({ i \in 1..Len(t) : t[i] # " " /\ (i = 1 \/ t[i - 1] = " ") })

(* The outcome of one call on an adapter: it returned a value or raised. *)
Raised(msg) == [raised |-> TRUE, value |-> <<>>, msg |-> msg]

Returned(v) == [raised |-> FALSE, value |-> v, msg |-> ""]

(* matched_keywords.sort(key=priority) is stable: the smallest priority,   *)
(* then the earliest declaration.                                          *)
best_keyword_last_declared(matched) ==
    CHOOSE k \in matched : \A m \in matched :
        \/ advice_map[k].priority < advice_map[m].priority
        \/ advice_map[k].priority = advice_map[m].priority /\ k >= m

best_keyword(matched) ==
    CHOOSE k \in matched : \A m \in matched :
        \/ advice_map[k].priority < advice_map[m].priority
        \/ advice_map[k].priority = advice_map[m].priority /\ k <= m

(* ml_available: self.ml_service is set; translated: the outcome of the    *)
(* translate_text call of line 392; advice_number, pick: the random draws  *)
(* of generate_advice_text.                                                *)
generate_keyword_advice(zulu_text, ml_available, translated, advice_number, pick) ==
    LET lowered == Lower(zulu_text)
        matched == { k \in 1..Len(advice_map) : Contains(lowered, advice_map[k].keyword) }
        ml_advice == generate_advice_text(translated.value, advice_number, pick)
    IN  IF matched # {} THEN <<advice_map[best_keyword(matched)].advice>>
        ELSE IF /\ ml_available
                /\ ~translated.raised
                /\ ~IsBlank(ml_advice)
                /\ TextLen(Strip(ml_advice)) > ML_ADVICE_MIN_LEN
             THEN ml_advice
        ELSE IF WordCount(zulu_text) > LONG_QUERY_WORDS THEN <<default_advices[2]>>
        ELSE IF \/ Contains(lowered, <<"h","e","l","p">>)
                \/ Contains(lowered, <<"u","s","i","z","o">>)
             THEN <<default_advices[3]>>
        ELSE <<default_advices[1]>>

(***************************************************************************)
(* VoiceRecognition._generate_ml_advice (compose_advice).                  *)
(***************************************************************************)
Get(item, field, default) ==
    IF field \in DOMAIN item THEN item[field] ELSE default

(* ', '.join(list) *)
RECURSIVE CommaJoin(_)
CommaJoin(list) ==
    IF Len(list) = 0 THEN <<>>
    ELSE IF Len(list) = 1 THEN <<list[1]>>
    ELSE <<list[1], ", ">> \o CommaJoin(Tail(list))

(* str(list), the form an f-string gives a list: ['a', 'b'] *)
RECURSIVE ReprItems(_)
ReprItems(list) ==
    IF Len(list) = 0 THEN <<>>
    ELSE IF Len(list) = 1 THEN <<"'", list[1], "'">>
    ELSE <<"'", list[1], "'", ", ">> \o ReprItems(Tail(list))

ListRepr(list) == <<"[">> \o ReprItems(list) \o <<"]">>

(* Lines 254-263: the sentence built from a matched item. *)
solution_advice(category, item) ==
    IF category = "diseases" THEN
        <<"For ", Get(item, "name", "plant disease"), ": ">>
        \o CommaJoin(Get(item, "solutions", <<"Consult agricultural expert">>))
        \o <<". Symptoms include: ">>
        \o CommaJoin(Get(item, "symptoms", <<"various signs">>))
        \o <<".">>
    ELSE IF category = "pests" THEN
        <<"For ", Get(item, "name", "pest problem"), ": ">>
        \o CommaJoin(Get(item, "solutions", <<"Use appropriate pest control">>))
        \o <<". Look for: ">>
        \o CommaJoin(Get(item, "symptoms", <<"pest signs">>))
        \o <<".">>
    ELSE IF category = "fertilizers" THEN
        <<"For fertilization: ", Get(item, "name", "fertilizer"), " - ">>
        \o CommaJoin(Get(item, "usage", <<"Apply as directed">>))
        \o <<". Benefits: ">>
        \o CommaJoin(Get(item, "benefits", <<"improved plant health">>))
        \o <<".">>
    ELSE IF category = "watering" THEN
        <<"Watering guidance: ", Get(item, "advice", "Water appropriately"),
          ". Tips: ">>
        \o CommaJoin(Get(item, "tips", <<"monitor soil moisture">>))
        \o <<".">>
    ELSE \* planting
        <<"Planting advice for ", Get(item, "crop", "crops"),
          ": Plant in ", Get(item, "season", "appropriate season"),
          ". Spacing: ", Get(item, "spacing", "follow guidelines"), ". ">>
        \o ListRepr(Get(item, "tips", <<"Follow best practices">>))
        \o <<".">>

TemplateCategories == {"diseases", "pests", "fertilizers", "watering", "planting"}

(* ml_available: self.ml_service is set; english: the outcome of the       *)
(* translate_text call of line 241; sims, sk_raised: what sklearn reports  *)
(* in the similarity stage; fallback: the outcome of the translate_text    *)
(* call of line 392.  The result is the advice text; nothing is raised.    *)
generate_ml_advice(zulu_text, ml_available, kb, english, report, fallback, advice_number, pick) ==
    IF ~ml_available \/ english.raised \/ report.failed
    THEN generate_keyword_advice(zulu_text, ml_available, fallback,
                                 advice_number, pick)
    ELSE LET ml_solution == find_solution(kb, english.value, report.sims, report.raised)
         IN  IF IsMatch(ml_solution)
             THEN IF ml_solution.category \in TemplateCategories
                  THEN solution_advice(ml_solution.category, ml_solution.solution)
                  ELSE generate_advice_text(english.value, advice_number, pick)
             ELSE generate_advice_text(english.value, advice_number, pick)

(***************************************************************************)
(* Inputs: the queries and the similarities sklearn can report.            *)
(***************************************************************************)
Vocabulary ==
    { <<"D","i","s","e","a","s","e">>, <<"r","o","t">>, <<"p","e","s","t">>,
      <<"w","a","t","e","r","i","n","g">>, <<"s","e","e","d">>,
      <<"c","o","m","p","o","s","t">>, <<"t","o","m","a","t","o">>,
      <<"s","o","i","l">> }

(* "my tomato has root rot" *)
ScenarioC ==
    JoinWith(<< <<"m","y">>, <<"t","o","m","a","t","o">>, <<"h","a","s">>,
                <<"r","o","o","t">>, <<"r","o","t">> >>, <<" ">>)

Queries ==
    { JoinWith(ws, <<" ">>) :
        ws \in UNION { [1..n -> Vocabulary] : n \in 0..MaxWords } }
    \cup { ScenarioC, <<" ">> \o ScenarioC \o <<" ">> }

(* 0.10 is the threshold itself, 0.11 and 0.50 lie above it. *)
SimValues == {10, 11, 50}

(* Similarity vectors over n items with at most MaxHits non-zero entries. *)
SimVectorsUpTo(n, max_hits) ==
    UNION { { [i \in 1..n |-> IF i \in hits THEN vals[i] ELSE 0] :
                vals \in [hits -> SimValues] } :
            hits \in { h \in SUBSET (1..n) : Cardinality(h) <= max_hits } }

SimVectors(n) == SimVectorsUpTo(n, MaxHits)

(* The values random.randint is modelled to draw. *)
AdviceNumbers == {ADVICE_NUMBER_MIN, ADVICE_NUMBER_MAX}

ZeroSims(kb) == [i \in 1..Len(AllItems(kb)) |-> 0]

(***************************************************************************)
(* State.                                                                  *)
(***************************************************************************)
VARIABLES
    knowledge_base,   \* AgricultureMLService.knowledge_base
    query,            \* the argument of the find_solution call under way
    rpc,              \* position in find_solution
    sklearn,          \* "notrun", "ok" or "raised": the similarity stage
    scores,           \* the similarities the similarity stage computed
    solution,         \* the value find_solution returned
    vectorizer,       \* the fitted vectorizer: what sklearn reports per query
    answers,          \* per query: the first value find_solution returned, and the calls
    advice_out,       \* the value generate_advice_text returned
    use_mock,         \* create_app: the services could not be imported
    speech_mock,      \* speech_service.mock_mode
    pc,               \* position of the process_audio run under way
    payload,          \* the audio_base64 argument
    temp_file_path,   \* TRUE when temp_file_path is bound (not None)
    temp_exists,      \* the temporary file of this run is on disk
    exc,              \* the exception in flight
    locals,           \* transcript, translation, advice, advice_zulu, audio
    calls,            \* the adapter calls of this run, in order
    res,              \* the value process_audio returned
    prev_failure,     \* cause and result of the latest failed run before this one
    translation_mock, \* translation_service.mock_mode
    tts_mock,         \* tts_service.mock_mode
    adapter_out,      \* the latest call made on an adapter by itself, and its outcome
    response,         \* what voice_query answered: the request and the status
    users_db,         \* users_db, in insertion order: id, email, password, role
    sessions,         \* per client, the session cookie
    access            \* the admin request being served: client, admin_required's verdict

rvars == <<query, rpc, sklearn, scores, solution, vectorizer, answers, advice_out>>

pvars == <<use_mock, speech_mock, pc, payload, temp_file_path, temp_exists,
           exc, locals, calls, res, prev_failure>>

uvars == <<users_db, sessions, access>>

avars == <<translation_mock, tts_mock, adapter_out, response, uvars>>

vars == <<knowledge_base, rvars, pvars, avars>>

NoException == [stage |-> "none", msg |-> <<>>]

NoLocals ==
    [transcript |-> <<>>, translation |-> <<>>, advice |-> <<>>,
     advice_zulu |-> <<>>, audio_data |-> "None", english_audio_data |-> "None"]

NoPayload == [decodes |-> TRUE, size |-> 0, error |-> ""]

NoResult ==
    [success |-> FALSE, error |-> <<"<no result>">>, transcript |-> <<>>,
     translation |-> <<>>, advice |-> <<>>, advice_zulu |-> <<>>,
     audio |-> "None", english_audio |-> "absent", mock_mode |-> FALSE]

NoFailure == [cause |-> "none", result |-> NoResult]

NoAdapterCall ==
    [call |-> "none", text |-> <<>>, mock_mode |-> FALSE,
     backend |-> [kind |-> "none"], asked |-> FALSE, raised |-> FALSE,
     value |-> <<>>]

NoResponse == [request |-> "none", status |-> 0]

Clients == {"c1", "c2"}

(* A session without 'user_id'. *)
NoSession ==
    [logged_in |-> FALSE, user_id |-> "", user_email |-> <<>>, user_role |-> ""]

NoAccess == [client |-> "none", passed |-> FALSE]

(* No user, no session, no admin request. *)
UsersIdle ==
    /\ users_db = <<>>
    /\ sessions = [c \in Clients |-> NoSession]
    /\ access = NoAccess

(* A vectorizer whose reports are not fixed in advance. *)
AnyFit == [q \in {} |-> <<>>]

NoAnswers == [q \in {} |-> <<>>]

(* No find_solution call is under way. *)
RetrievalIdle ==
    /\ query = <<>>
    /\ rpc = "idle"
    /\ sklearn = "notrun"
    /\ scores = <<>>
    /\ solution = NoMatch
    /\ vectorizer = AnyFit
    /\ answers = NoAnswers
    /\ advice_out = <<>>

(* No process_audio run is under way. *)
PipelineIdle ==
    /\ use_mock = FALSE
    /\ speech_mock = FALSE
    /\ pc = "idle"
    /\ payload = NoPayload
    /\ temp_file_path = FALSE
    /\ temp_exists = FALSE
    /\ exc = NoException
    /\ locals = NoLocals
    /\ calls = <<>>
    /\ res = NoResult
    /\ prev_failure = NoFailure
    /\ translation_mock = FALSE
    /\ tts_mock = FALSE
    /\ adapter_out = NoAdapterCall
    /\ response = NoResponse
    /\ UsersIdle

(***************************************************************************)
(* find_solution as a process: one call on a fixed knowledge base.         *)
(***************************************************************************)
InitRetrieval ==
    /\ knowledge_base \in KnowledgeBases
    /\ query \in Queries
    /\ rpc = "called"
    /\ sklearn = "notrun"
    /\ scores = <<>>
    /\ solution = NoMatch
    /\ vectorizer = AnyFit
    /\ answers = NoAnswers
    /\ advice_out = <<>>
    /\ PipelineIdle

(* The log of answers after find_solution(q) returned sol. *)
Answered(log, q, sol) ==
    [x \in DOMAIN log \cup {q} |->
        IF x \in DOMAIN log
        THEN IF x = q THEN [log[x] EXCEPT !.calls = @ + 1] ELSE log[x]
        ELSE [first |-> sol, calls |-> 1]]

(* What cosine_similarity over the fitted vectorizer reports for the       *)
(* normalised query nq: the report fixed by the fit, or any vector when    *)
(* the fit is left open; a blank query or a raising sklearn call scores    *)
(* nothing.                                                                *)
SklearnReports(kb, fit, nq) ==
    IF nq \in DOMAIN fit THEN { fit[nq] }
    ELSE { [sims |-> ZeroSims(kb), raised |-> TRUE] }
         \cup { [sims |-> v, raised |-> FALSE] :
                  v \in (IF nq = <<>> THEN { ZeroSims(kb) }
                         ELSE SimVectors(Len(AllItems(kb)))) }

(* The direct stage taking the item out of the category (items.pop(0)      *)
(* for items[0]).                                                          *)
DirectKeywordStagePops ==
    /\ rpc = "called"
    /\ LET direct_match ==
               direct_keyword_match(knowledge_base, normalize(query))
       IN  IF IsMatch(direct_match)
           THEN /\ solution' = direct_match
                /\ answers' = Answered(answers, query, direct_match)
                /\ knowledge_base' =
                      [knowledge_base EXCEPT ![direct_match.category] = Tail(@)]
                /\ rpc' = "returned"
           ELSE /\ solution' = solution
                /\ answers' = answers
                /\ knowledge_base' = knowledge_base
                /\ rpc' = "similarity"
    /\ UNCHANGED <<query, sklearn, scores, vectorizer, advice_out, pvars, avars>>

(* find_solution lines 123-128: normalise, direct keyword stage. *)
DirectKeywordStage ==
    /\ rpc = "called"
    /\ LET direct_match ==
               direct_keyword_match(knowledge_base, normalize(query))
       IN  IF IsMatch(direct_match)
           THEN /\ solution' = direct_match
                /\ answers' = Answered(answers, query, direct_match)
                /\ rpc' = "returned"
           ELSE /\ solution' = solution
                /\ answers' = answers
                /\ rpc' = "similarity"
    /\ UNCHANGED <<knowledge_base, query, sklearn, scores, vectorizer,
                   advice_out, pvars, avars>>

(* The similarity stage with the vectorizer fitted anew on every call, so  *)
(* that the scores of a query are not fixed by the fit of __init__.        *)
SimilarityStageRefits ==
    /\ rpc = "similarity"
    /\ \E report \in SklearnReports(knowledge_base, AnyFit, normalize(query)) :
          /\ sklearn' = IF report.raised THEN "raised" ELSE "ok"
          /\ scores' = IF report.raised THEN <<>> ELSE report.sims
          /\ solution' = ml_similarity_match(knowledge_base, report.sims,
                                             report.raised)
          /\ answers' = Answered(answers, query, solution')
    /\ rpc' = "returned"
    /\ UNCHANGED <<knowledge_base, query, vectorizer, advice_out, pvars, avars>>

(* find_solution line 131: _ml_similarity_match scores every item. *)
SimilarityStage ==
    /\ rpc = "similarity"
    /\ \E report \in SklearnReports(knowledge_base, vectorizer, normalize(query)) :
          /\ sklearn' = IF report.raised THEN "raised" ELSE "ok"
          /\ scores' = IF report.raised THEN <<>> ELSE report.sims
          /\ solution' = ml_similarity_match(knowledge_base, report.sims,
                                             report.raised)
          /\ answers' = Answered(answers, query, solution')
    /\ rpc' = "returned"
    /\ UNCHANGED <<knowledge_base, query, vectorizer, advice_out, pvars, avars>>

NextRetrieval == DirectKeywordStage \/ SimilarityStage

SpecRetrieval == InitRetrieval /\ [][NextRetrieval]_vars

(***************************************************************************)
(* generate_advice_text as a process: one call with its random draws.      *)
(***************************************************************************)
(* Texts passed to generate_advice_text: the queries, and texts with a     *)
(* weather word, an isiZulu keyword and an upper-case keyword.             *)
AdviceQueries ==
    Queries
    \cup { <<"R","a","i","n">>,
           <<"s","o","i","l"," ","a","n","d"," ","s","u","n">>,
           <<"i","z","i","f","o">>,
           <<"P","E","S","T"," ","r","o","t">> }

InitAdviceText ==
    /\ knowledge_base \in KnowledgeBases
    /\ query \in AdviceQueries
    /\ rpc = "generate"
    /\ sklearn = "notrun"
    /\ scores = <<>>
    /\ solution = NoMatch
    /\ vectorizer = AnyFit
    /\ answers = NoAnswers
    /\ advice_out = <<>>
    /\ PipelineIdle

(* generate_advice_text(query): random.randint draws the number and        *)
(* random.choice an index into the list of the branch taken.               *)
GenerateAdviceText ==
    /\ rpc \in {"generate", "returned"}
    /\ \E advice_number \in AdviceNumbers :
       \E pick \in 1..Len(advice_class(query).variants) :
          advice_out' = generate_advice_text(query, advice_number, pick)
    /\ rpc' = "generated"
    /\ UNCHANGED <<knowledge_base, query, sklearn, scores, solution, vectorizer,
                   answers, pvars, avars>>

NextAdviceText == GenerateAdviceText

SpecAdviceText == InitAdviceText /\ [][NextAdviceText]_vars

(***************************************************************************)
(* The service as an object: calls one after the other on the knowledge    *)
(* base and the vectorizer that __init__ built and fitted.                 *)
(***************************************************************************)
Tomato == <<"t","o","m","a","t","o">>

(* The queries of the calls, and those among them that reach sklearn. *)
ServiceQueries == { Tomato, ScenarioC }

FittedQueries == { Tomato }

(* The reports a fit can fix for one query. *)
FitReports(kb) ==
    { [sims |-> ZeroSims(kb), raised |-> TRUE] }
    \cup { [sims |-> v, raised |-> FALSE] :
             v \in SimVectorsUpTo(Len(AllItems(kb)), MaxPipelineHits) }

InitService ==
    /\ knowledge_base \in KnowledgeBases
    /\ query = <<>>
    /\ rpc = "idle"
    /\ sklearn = "notrun"
    /\ scores = <<>>
    /\ solution = NoMatch
    /\ vectorizer \in [FittedQueries -> FitReports(knowledge_base)]
    /\ answers = NoAnswers
    /\ advice_out = <<>>
    /\ PipelineIdle

(* A caller invokes find_solution(q). *)
CallFindSolution ==
    /\ rpc \in {"idle", "returned", "generated"}
    /\ \E q \in ServiceQueries :
          /\ q \in DOMAIN answers => answers[q].calls < MaxCalls
          /\ query' = q
    /\ rpc' = "called"
    /\ sklearn' = "notrun"
    /\ scores' = <<>>
    /\ solution' = NoMatch
    /\ advice_out' = <<>>
    /\ UNCHANGED <<knowledge_base, vectorizer, answers, pvars, avars>>

NextService ==
    \/ CallFindSolution
    \/ DirectKeywordStage
    \/ SimilarityStage
    \/ GenerateAdviceText

SpecService == InitService /\ [][NextService]_vars

(***************************************************************************)
(* The adapters as process_audio sees them.                                *)
(***************************************************************************)
MIN_AUDIO_BYTES == 100

(* What base64.b64decode makes of the audio_base64 argument. *)
Payloads ==
    { [decodes |-> FALSE, size |-> 0, error |-> "Incorrect padding"] }
    \cup { [decodes |-> TRUE, size |-> n, error |-> ""] :
             n \in {0, MIN_AUDIO_BYTES - 1, MIN_AUDIO_BYTES} }

(* Messages of the OSError that creating or writing the file can raise. *)
OsErrors == {"No space left on device"}

(* _mock_transcription *)
MockTranscription ==
    <<"S","p","e","e","c","h","-","t","o","-","T","e","x","t"," ","A","P",
      "I"," ","i","s"," ","n","o","t"," ","a","v","a","i","l","a","b","l","e",
      "."," ","P","l","e","a","s","e"," ","e","n","a","b","l","e"," ","G","o",
      "o","g","l","e"," ","C","l","o","u","d"," ","S","p","e","e","c","h","-",
      "t","o","-","T","e","x","t"," ","A","P","I",".">>

(* What the two recognize_once calls and the SDK can give transcribe_audio: *)
(* a pair of recognition results, or an exception with a message.          *)
ZuluTexts ==
    { <<>>, <<" ">>,
      <<"n","g","i","c","e","l","a"," ","u","s","i","z","o">> }

EnglishSpeech == { <<>>, ScenarioC }

Confidences == {50, 90}

SpeechErrors ==
    { <<"H","T","T","P"," ","4","0","3"," ","F","o","r","b","i","d","d","e","n">>,
      <<"C","o","n","n","e","c","t","i","o","n"," ","t","i","m","e","o","u","t">>,
      <<"C","o","n","n","e","c","t","i","o","n"," ","r","e","s","e","t">> }

SpeechBackends ==
    { [kind |-> "result", english_transcript |-> e, english_confidence |-> ec,
       zulu_transcript |-> z, zulu_confidence |-> zc, msg |-> <<>>] :
        e \in EnglishSpeech, ec \in Confidences, z \in ZuluTexts, zc \in Confidences }
    \cup { [kind |-> "error", english_transcript |-> <<>>, english_confidence |-> 0,
            zulu_transcript |-> <<>>, zulu_confidence |-> 0, msg |-> m] :
             m \in SpeechErrors }

(* speech_service.py lines 133-135: the messages that mean the API is off. *)
IsApiAccessError(msg) ==
    LET error_str == Lower(msg)
    IN  \/ Contains(error_str, <<"u","n","a","u","t","h","o","r","i","z","e","d">>)
        \/ Contains(error_str, <<"4","0","3">>)
        \/ Contains(error_str, <<"i","n","v","a","l","i","d">>)

(* The choice with >= in place of > at line 110: English wins a tie. *)
final_transcript_english_on_tie(backend) ==
    IF /\ backend.english_confidence >= backend.zulu_confidence
       /\ backend.english_transcript # <<>>
    THEN backend.english_transcript
    ELSE IF backend.zulu_transcript # <<>>
    THEN backend.zulu_transcript
    ELSE IF backend.english_transcript # <<>>
    THEN backend.english_transcript
    ELSE <<>>

(* Lines 109-121: the choice between the two recognition results. *)
final_transcript(backend) ==
    IF /\ backend.english_confidence > backend.zulu_confidence
       /\ backend.english_transcript # <<>>
    THEN backend.english_transcript
    ELSE IF backend.zulu_transcript # <<>>
    THEN backend.zulu_transcript
    ELSE IF backend.english_transcript # <<>>
    THEN backend.english_transcript
    ELSE <<>>

(* Lines 54-57: the recognizers are used unless the adapter is in mock     *)
(* mode.                                                                   *)
transcribe_asks_backend(mock_mode) == ~mock_mode

(* The transcription with the mock branch of lines 54-55 raising instead   *)
(* of returning the fixed message.                                         *)
transcribe_audio_unavailable(mock_mode, backend) ==
    IF mock_mode
    THEN [outcome |-> Raised(<<"Error transcribing audio: ">> \o MockTranscription),
          mock_mode |-> TRUE]
    ELSE IF backend.kind = "error"
    THEN IF IsApiAccessError(backend.msg)
         THEN [outcome |-> Returned(MockTranscription), mock_mode |-> TRUE]
         ELSE [outcome |-> Raised(<<"Error transcribing audio: ">> \o backend.msg),
               mock_mode |-> mock_mode]
    ELSE [outcome |-> Returned(final_transcript(backend)), mock_mode |-> mock_mode]

(* SpeechToTextService.transcribe_audio: the value returned or the         *)
(* exception raised, and the mock_mode flag it leaves.                     *)
transcribe_audio(mock_mode, backend) ==
    IF mock_mode
    THEN [outcome |-> Returned(MockTranscription), mock_mode |-> TRUE]
    ELSE IF backend.kind = "error"
    THEN IF IsApiAccessError(backend.msg)
         THEN [outcome |-> Returned(MockTranscription), mock_mode |-> TRUE]
         ELSE [outcome |-> Raised(<<"Error transcribing audio: ">> \o backend.msg),
               mock_mode |-> mock_mode]
    ELSE [outcome |-> Returned(final_transcript(backend)), mock_mode |-> mock_mode]

(* The marker of TranslationService._mock_translation. *)
TranslationMarker ==
    <<"[","T","r","a","n","s","l","a","t","i","o","n"," ","n","o","t"," ",
      "a","v","a","i","l","a","b","l","e","]"," ">>

(* TranslationService._mock_translation (lines 69-75). *)
mock_translation(text) == TranslationMarker \o text

(* What self.client.translate gives one translate_text call: a result with *)
(* its translatedText, or an exception.                                    *)
BackendError == [kind |-> "error", translatedText |-> <<>>]

BackendResult(t) == [kind |-> "result", translatedText |-> t]

(* The translation with the handler of lines 64-67 left out: the           *)
(* backend's exception leaves translate_text.                              *)
translate_text_propagates(mock_mode, backend, text) ==
    IF text = <<>> \/ Strip(text) = <<>>
    THEN Returned(<<>>)
    ELSE IF mock_mode
    THEN Returned(mock_translation(text))
    ELSE IF backend.kind = "error"
    THEN Raised("connection refused")
    ELSE Returned(backend.translatedText)

(* TranslationService.translate_text (lines 35-67): "" for blank text, the *)
(* marked text in mock mode, else the backend's translatedText, and the    *)
(* marked text when the backend call raised.                               *)
translate_text(mock_mode, backend, text) ==
    IF text = <<>> \/ Strip(text) = <<>>
    THEN Returned(<<>>)
    ELSE IF mock_mode
    THEN Returned(mock_translation(text))
    ELSE IF backend.kind = "error"
    THEN Returned(mock_translation(text))
    ELSE Returned(backend.translatedText)

(* Lines 43-53: self.client.translate is called for a text that is not     *)
(* blank unless the adapter is in mock mode.                               *)
translate_asks_backend(mock_mode, text) ==
    ~(text = <<>> \/ Strip(text) = <<>>) /\ ~mock_mode

(* The English texts the translation backend gives for a query. *)
EnglishTexts ==
    { ScenarioC, <<"s","o","i","l">> }

(* What the backend can do when asked: it is asked only when the adapter   *)
(* is not in mock mode and the text is not blank.                          *)
BackendsAsked(mock_mode, text, results) ==
    IF mock_mode \/ Strip(text) = <<>> THEN { BackendError }
    ELSE { BackendError } \cup { BackendResult(t) : t \in results }

(* A call translate_text(text, zu -> en) whose result is used as a query. *)
QueryTranslations(mock_mode, text) ==
    { translate_text(mock_mode, b, text) :
        b \in BackendsAsked(mock_mode, text, EnglishTexts) }

(* A call translate_text(text, source -> target) whose result is only      *)
(* reported: the backend's text is the text tagged with the target         *)
(* language.                                                               *)
Translations(mock_mode, text, target_lang) ==
    { translate_text(mock_mode, b, text) :
        b \in BackendsAsked(mock_mode, text,
                            { <<"<" \o target_lang \o "> ">> \o text }) }

(* The names bound at module level in text_to_speech_service.py (lines     *)
(* 1-9); _mock_synthesis imports datetime into its own scope only.         *)
TtsModuleGlobals ==
    {"texttospeech", "os", "Optional", "load_dotenv", "TextToSpeechService"}

MIN_SYNTHESIS_BYTES == 100

(* What self.client.synthesize_speech gives one call: audio of some size,  *)
(* or an exception with a message.                                         *)
TtsErrors ==
    { <<"4","0","3"," ","p","e","r","m","i","s","s","i","o","n">>,
      <<"Q","u","o","t","a"," ","e","x","c","e","e","d","e","d">>,
      <<"t","i","m","e","o","u","t">> }

TtsBackends ==
    { [kind |-> "audio", size |-> n, msg |-> <<>>] :
        n \in {0, MIN_SYNTHESIS_BYTES - 1, MIN_SYNTHESIS_BYTES} }
    \cup { [kind |-> "error", size |-> 0, msg |-> m] : m \in TtsErrors }

(* Line 159: the messages that switch the adapter to mock mode. *)
IsTtsAccessError(msg) ==
    LET error_str == Lower(msg)
    IN  \/ Contains(error_str, <<"s","e","r","v","i","c","e","_","d","i","s","a","b","l","e","d">>)
        \/ Contains(error_str, <<"4","0","3">>)
        \/ Contains(error_str, <<"n","o","t"," ","e","n","a","b","l","e","d">>)
        \/ Contains(error_str, <<"p","e","r","m","i","s","s","i","o","n">>)
        \/ Contains(error_str, <<"u","n","a","u","t","h","o","r","i","z","e","d">>)

SynthesisResult(outcome, audio, mock_mode) ==
    [outcome |-> outcome, audio |-> audio, mock_mode |-> mock_mode]

(* TextToSpeechService.synthesize_speech (lines 49-168): the outcome       *)
(* ("bytes", "None" or "raised"), where the bytes come from, and the       *)
(* mock_mode flag the call leaves.  Line 57 evaluates datetime.now()       *)
(* before anything else; the name is looked up among the module's globals  *)
(* and a missing name raises NameError.                                    *)
synthesize_speech(mock_mode, backend, text, language_code, voice_gender) ==
    IF "datetime" \notin TtsModuleGlobals
    THEN SynthesisResult("raised", "NameError", mock_mode)
    ELSE IF text = <<>> \/ Strip(text) = <<>>
    THEN SynthesisResult("None", "none", mock_mode)
    ELSE IF mock_mode
    THEN SynthesisResult("bytes", "mock_wav", mock_mode)
    ELSE IF backend.kind = "error"
    THEN SynthesisResult("bytes", "mock_wav",
                         mock_mode \/ IsTtsAccessError(backend.msg))
    ELSE IF backend.size = 0 \/ backend.size < MIN_SYNTHESIS_BYTES
    THEN SynthesisResult("bytes", "mock_wav", mock_mode)
    ELSE SynthesisResult("bytes", "backend", mock_mode)

(* Lines 57-121: self.client.synthesize_speech is called when line 57 has  *)
(* not raised, the text is not blank and the adapter is not in mock mode.  *)
synthesize_asks_backend(mock_mode, text) ==
    /\ "datetime" \in TtsModuleGlobals
    /\ ~(text = <<>> \/ Strip(text) = <<>>)
    /\ ~mock_mode

(* The outcomes of a tts_service.synthesize_speech call that process_audio *)
(* provides for: audio bytes, None, or an exception (the handler of line   *)
(* 142).                                                                   *)
SynthesisOutcomes == {"bytes", "None", "raised"}

(***************************************************************************)
(* The adapters by themselves: calls of transcribe_audio, translate_text   *)
(* and synthesize_speech on adapters in either mode.                       *)
(***************************************************************************)
AdapterTexts ==
    { <<>>, <<" ">>, <<" ", " ">>,
      <<"a","m","a","n","z","i">>,
      <<" ","a","m","a","n","z","i"," ">> }

LanguagePairs == { <<"zu", "en">>, <<"en", "zu">> }

LanguageCodes == {"zu-ZA", "en-US"}

VoiceGenders == {"NEUTRAL", "FEMALE"}

InitAdapters ==
    /\ knowledge_base \in KnowledgeBases
    /\ RetrievalIdle
    /\ use_mock = FALSE
    /\ speech_mock \in BOOLEAN
    /\ pc = "idle"
    /\ payload = NoPayload
    /\ temp_file_path = FALSE
    /\ temp_exists = FALSE
    /\ exc = NoException
    /\ locals = NoLocals
    /\ calls = <<>>
    /\ res = NoResult
    /\ prev_failure = NoFailure
    /\ translation_mock \in BOOLEAN
    /\ tts_mock \in BOOLEAN
    /\ adapter_out = NoAdapterCall
    /\ response = NoResponse
    /\ UsersIdle

(* One call translation_service.translate_text(text, source, target). *)
TranslateText ==
    /\ \E text \in AdapterTexts, langs \in LanguagePairs :
       \E b \in { BackendError,
                  BackendResult(<<"<" \o langs[2] \o "> ">> \o text) } :
          LET r == translate_text(translation_mock, b, text)
          IN  adapter_out' =
                  [call |-> "translate_text", text |-> text,
                   mock_mode |-> translation_mock, backend |-> b,
                   asked |-> translate_asks_backend(translation_mock, text),
                   raised |-> r.raised, value |-> r.value]
    /\ UNCHANGED <<knowledge_base, rvars, pvars, translation_mock, tts_mock,
                   response, uvars>>

(* One call tts_service.synthesize_speech(text, language_code, gender). *)
SynthesizeSpeech ==
    /\ \E text \in AdapterTexts, language_code \in LanguageCodes,
          voice_gender \in VoiceGenders, b \in TtsBackends :
          LET r == synthesize_speech(tts_mock, b, text, language_code,
                                     voice_gender)
          IN  /\ adapter_out' =
                    [call |-> "synthesize_speech", text |-> text,
                     mock_mode |-> tts_mock, backend |-> b,
                     asked |-> synthesize_asks_backend(tts_mock, text),
                     raised |-> (r.outcome = "raised"), value |-> r.outcome]
              /\ tts_mock' = r.mock_mode
    /\ UNCHANGED <<knowledge_base, rvars, pvars, translation_mock, response,
                   uvars>>

(* A call of transcribe_audio that clears the mock_mode flag when the      *)
(* recognizers are there to answer.                                        *)
TranscribeAudioRecovers ==
    /\ \E b \in SpeechBackends :
          LET r == transcribe_audio(speech_mock, b)
          IN  /\ adapter_out' =
                    [call |-> "transcribe_audio", text |-> <<>>,
                     mock_mode |-> speech_mock, backend |-> b,
                     asked |-> transcribe_asks_backend(speech_mock),
                     raised |-> r.outcome.raised, value |-> r.outcome.value]
              /\ speech_mock' = (r.mock_mode /\ b.kind = "error")
    /\ UNCHANGED <<knowledge_base, rvars, use_mock, pc, payload, temp_file_path,
                   temp_exists, exc, locals, calls, res, prev_failure,
                   translation_mock, tts_mock, response, uvars>>

(* One call speech_service.transcribe_audio(audio_file_path). *)
TranscribeAudio ==
    /\ \E b \in SpeechBackends :
          LET r == transcribe_audio(speech_mock, b)
          IN  /\ adapter_out' =
                    [call |-> "transcribe_audio", text |-> <<>>,
                     mock_mode |-> speech_mock, backend |-> b,
                     asked |-> transcribe_asks_backend(speech_mock),
                     raised |-> r.outcome.raised, value |-> r.outcome.value]
              /\ speech_mock' = r.mock_mode
    /\ UNCHANGED <<knowledge_base, rvars, use_mock, pc, payload, temp_file_path,
                   temp_exists, exc, locals, calls, res, prev_failure,
                   translation_mock, tts_mock, response, uvars>>

NextAdapters == TranscribeAudio \/ TranslateText \/ SynthesizeSpeech

SpecAdapters == InitAdapters /\ [][NextAdapters]_vars


(***************************************************************************)
(* The results of process_audio.                                           *)
(***************************************************************************)
FallbackTranscript ==
    <<"Speech not detected. Please try speaking louder and clearer.">>

FallbackAdvice ==
    <<"Please speak clearly and ensure your microphone is working properly.">>

FallbackAdviceZulu ==
    <<"Sicela ukhulume ngokusobala futhi uqinisekise ukuthi imakrofoni yakho iyasebenza kahle.">>

ApologyAdvice ==
    <<"Please try recording again. If the problem persists, contact support.">>

ApologyAdviceZulu ==
    <<"Sicela uzame ukurekhoda futhi. Uma inkinga iqhubeka, xhumana nosizo.">>

(* One entry of the log of adapter and engine calls of a run. *)
Called(name, outcome) == [call |-> name, outcome |-> outcome]

ReturnOutcome(r) == IF r.raised THEN "raised" ELSE "returned"

Encode(audio) == IF audio = "bytes" THEN "base64" ELSE "None"

(* Lines 150-160. *)
success_result(l) ==
    [success |-> TRUE, error |-> <<"<absent>">>,
     transcript |-> l.transcript, translation |-> l.translation,
     advice |-> l.advice, advice_zulu |-> l.advice_zulu,
     audio |-> Encode(l.audio_data),
     english_audio |-> Encode(l.english_audio_data),
     mock_mode |-> FALSE]

(* Lines 171-187: error_msg = f'Failed to process audio: {str(e)}'. *)
failure_result(e) ==
    [success |-> FALSE, error |-> <<"Failed to process audio: ">> \o e.msg,
     transcript |-> <<>>, translation |-> <<>>,
     advice |-> ApologyAdvice, advice_zulu |-> ApologyAdviceZulu,
     audio |-> "None", english_audio |-> "absent", mock_mode |-> FALSE]

(* _mock_process_audio when use_mock is set: ml_service and                *)
(* translation_service are None, so the keyword advice for "izitshalo      *)
(* zifo" is computed, translation_service.translate_text raises            *)
(* AttributeError and the handler of line 212 supplies both advice texts.  *)
mock_result ==
    [success |-> TRUE, error |-> <<"<absent>">>,
     transcript |-> <<"Sawubona, ngicela usizo ngezitshalo zami">>,
     translation |-> <<"Hello, I need help with my plants">>,
     advice |-> <<"For plant diseases, ensure proper watering and use organic pesticides.">>,
     advice_zulu |-> <<"Ngezifo zezitshalo, qinisekisa ukunisela okufanele futhi use izibulala-zinambuzane zemvelo.">>,
     audio |-> "None", english_audio |-> "None", mock_mode |-> TRUE]

(***************************************************************************)
(* process_audio as a process: one step per stage of the pipeline.         *)
(***************************************************************************)
InitPipeline ==
    /\ knowledge_base \in KnowledgeBases
    /\ RetrievalIdle
    /\ use_mock \in BOOLEAN
    /\ speech_mock \in (IF use_mock THEN {FALSE} ELSE BOOLEAN)
    /\ translation_mock \in (IF use_mock THEN {FALSE} ELSE BOOLEAN)
    /\ tts_mock \in (IF use_mock THEN {FALSE} ELSE BOOLEAN)
    /\ adapter_out = NoAdapterCall
    /\ response = NoResponse
    /\ UsersIdle
    /\ pc = "idle"
    /\ payload = NoPayload
    /\ temp_file_path = FALSE
    /\ temp_exists = FALSE
    /\ exc = NoException
    /\ locals = NoLocals
    /\ calls = <<>>
    /\ res = NoResult
    /\ prev_failure = NoFailure

(* Lines 78-82: a request arrives; with use_mock the canned result is      *)
(* returned at once.                                                       *)
ProcessAudio ==
    /\ pc = "idle"
    /\ \E p \in Payloads : payload' = p
    /\ IF use_mock
       THEN /\ res' = mock_result
            /\ pc' = "done"
       ELSE /\ res' = res
            /\ pc' = "decode"
    /\ UNCHANGED <<knowledge_base, rvars, avars, use_mock, speech_mock, temp_file_path,
                   temp_exists, exc, locals, calls, prev_failure>>

(* The decode step with the size check of lines 88-89 left out. *)
DecodeUnchecked ==
    /\ pc = "decode"
    /\ IF ~payload.decodes
       THEN /\ exc' = [stage |-> "decode", msg |-> <<payload.error>>]
            /\ pc' = "except"
       ELSE /\ exc' = exc
            /\ pc' = "tempfile"
    /\ UNCHANGED <<knowledge_base, rvars, avars, use_mock, speech_mock, payload,
                   temp_file_path, temp_exists, locals, calls, res, prev_failure>>

(* Lines 85-89: b64decode and the size check, outside the inner try. *)
Decode ==
    /\ pc = "decode"
    /\ IF ~payload.decodes
       THEN /\ exc' = [stage |-> "decode", msg |-> <<payload.error>>]
            /\ pc' = "except"
       ELSE IF payload.size < MIN_AUDIO_BYTES
       THEN /\ exc' = [stage |-> "validate",
                       msg |-> <<"Audio data too small, likely corrupted">>]
            /\ pc' = "except"
       ELSE /\ exc' = exc
            /\ pc' = "tempfile"
    /\ UNCHANGED <<knowledge_base, rvars, avars, use_mock, speech_mock, payload,
                   temp_file_path, temp_exists, locals, calls, res, prev_failure>>

(* Lines 93-98: NamedTemporaryFile(delete=False), write, bind              *)
(* temp_file_path.  Creating the file can fail (no file), writing can fail *)
(* (the file stays, temp_file_path is still None).                         *)
SaveTempFile ==
    /\ pc = "tempfile"
    /\ \E outcome \in {"saved", "create_failed", "write_failed"} :
       \E m \in OsErrors :
          /\ temp_exists' = (outcome # "create_failed")
          /\ temp_file_path' = (outcome = "saved")
          /\ exc' = IF outcome = "saved" THEN exc
                    ELSE [stage |-> outcome, msg |-> <<m>>]
          /\ pc' = IF outcome = "saved" THEN "transcribe" ELSE "finally"
    /\ UNCHANGED <<knowledge_base, rvars, avars, use_mock, speech_mock, payload,
                   locals, calls, res, prev_failure>>

(* The transcription step without the fallback of lines 104-109: a blank   *)
(* transcript goes on to translation.                                      *)
TranscribeNoFallback ==
    /\ pc = "transcribe"
    /\ \E backend \in SpeechBackends :
          LET r == transcribe_audio(speech_mock, backend)
          IN  /\ speech_mock' = r.mock_mode
              /\ calls' = Append(calls, Called("transcribe",
                                  IF r.outcome.raised THEN "raised"
                                  ELSE IF IsBlank(r.outcome.value) THEN "blank"
                                  ELSE "text"))
              /\ IF r.outcome.raised
                 THEN /\ exc' = [stage |-> "transcribe", msg |-> r.outcome.msg]
                      /\ locals' = locals
                      /\ pc' = "finally"
                 ELSE /\ exc' = exc
                      /\ locals' = [locals EXCEPT !.transcript = r.outcome.value]
                      /\ pc' = "translate_in"
    /\ UNCHANGED <<knowledge_base, rvars, avars, use_mock, payload, temp_file_path,
                   temp_exists, res, prev_failure>>

(* Lines 100-111: transcribe; a blank transcript is replaced by the fixed  *)
(* texts and the run goes to synthesis.                                    *)
Transcribe ==
    /\ pc = "transcribe"
    /\ \E backend \in SpeechBackends :
          LET r == transcribe_audio(speech_mock, backend)
          IN  /\ speech_mock' = r.mock_mode
              /\ calls' = Append(calls, Called("transcribe",
                                  IF r.outcome.raised THEN "raised"
                                  ELSE IF IsBlank(r.outcome.value) THEN "blank"
                                  ELSE "text"))
              /\ IF r.outcome.raised
                 THEN /\ exc' = [stage |-> "transcribe", msg |-> r.outcome.msg]
                      /\ locals' = locals
                      /\ pc' = "finally"
                 ELSE IF r.outcome.value = <<>> \/ Strip(r.outcome.value) = <<>>
                 THEN /\ exc' = exc
                      /\ locals' = [locals EXCEPT
                                      !.transcript = FallbackTranscript,
                                      !.translation = FallbackTranscript,
                                      !.advice = FallbackAdvice,
                                      !.advice_zulu = FallbackAdviceZulu]
                      /\ pc' = "synthesize_zulu"
                 ELSE /\ exc' = exc
                      /\ locals' = [locals EXCEPT !.transcript = r.outcome.value]
                      /\ pc' = "translate_in"
    /\ UNCHANGED <<knowledge_base, rvars, avars, use_mock, payload, temp_file_path,
                   temp_exists, res, prev_failure>>

(* Lines 113-116: translate the transcript to English. *)
TranslateIn ==
    /\ pc = "translate_in"
    /\ \E t \in Translations(translation_mock, locals.transcript, "en") :
          /\ calls' = Append(calls, Called("translate_in", ReturnOutcome(t)))
          /\ IF t.raised
             THEN /\ exc' = [stage |-> "translate_in", msg |-> <<t.msg>>]
                  /\ locals' = locals
                  /\ pc' = "finally"
             ELSE /\ exc' = exc
                  /\ locals' = [locals EXCEPT !.translation = t.value]
                  /\ pc' = "retrieve"
    /\ UNCHANGED <<knowledge_base, rvars, avars, use_mock, speech_mock, payload,
                   temp_file_path, temp_exists, res, prev_failure>>

(* The random draws of one generate_advice_text(text) call. *)
AdviceDraws(text) ==
    { [advice_number |-> n, pick |-> k] :
        n \in AdviceNumbers, k \in {1, Len(advice_class(text).variants)} }

(* The draws made when the advice for english is composed: none when       *)
(* find_solution answers with an item of a template category.              *)
DrawsFor(kb, english, report, fallback) ==
    IF english.raised \/ report.failed THEN AdviceDraws(fallback.value)
    ELSE LET ml_solution == find_solution(kb, english.value, report.sims, report.raised)
         IN  IF IsMatch(ml_solution) /\ ml_solution.category \in TemplateCategories
             THEN { [advice_number |-> ADVICE_NUMBER_MIN, pick |-> 1] }
             ELSE AdviceDraws(english.value)

(* What can happen when find_solution(english_text) is called: when the    *)
(* direct stage answers, the answer or an exception that leaves the call   *)
(* (failed); else the similarity vectors and the failure of the sklearn    *)
(* call, which _ml_similarity_match absorbs (raised).                      *)
SimilarityReports(kb, english_text) ==
    IF IsMatch(direct_keyword_match(kb, normalize(english_text)))
       \/ normalize(english_text) = <<>>
    THEN { [sims |-> ZeroSims(kb), raised |-> FALSE, failed |-> f] :
             f \in BOOLEAN }
    ELSE { [sims |-> v, raised |-> FALSE, failed |-> FALSE] :
             v \in SimVectorsUpTo(Len(AllItems(kb)), MaxPipelineHits) }
         \cup { [sims |-> ZeroSims(kb), raised |-> TRUE, failed |-> FALSE] }

KeywordMatched(zulu_text) ==
    \E k \in 1..Len(advice_map) : Contains(Lower(zulu_text), advice_map[k].keyword)

(* The calls _generate_keyword_advice makes (lines 389-400). *)
keyword_advice_calls(zulu_text, fallback) ==
    IF KeywordMatched(zulu_text) THEN <<>>
    ELSE <<Called("advice.fallback_translate", ReturnOutcome(fallback))>>
         \o (IF fallback.raised THEN <<>>
             ELSE <<Called("advice.generate_advice_text", "returned")>>)

(* The calls _generate_ml_advice makes, in order. *)
advice_calls(zulu_text, kb, english, report, fallback) ==
    <<Called("advice.translate", ReturnOutcome(english))>>
    \o (IF english.raised THEN keyword_advice_calls(zulu_text, fallback)
        ELSE IF report.failed
        THEN <<Called("advice.find_solution", "raised")>>
             \o keyword_advice_calls(zulu_text, fallback)
        ELSE LET ml_solution ==
                     find_solution(kb, english.value, report.sims, report.raised)
             IN  IF IsMatch(ml_solution)
                 THEN <<Called("advice.find_solution", "match")>>
                      \o (IF ml_solution.category \in TemplateCategories THEN <<>>
                          ELSE <<Called("advice.generate_advice_text", "returned")>>)
                 ELSE <<Called("advice.find_solution", "no_match"),
                        Called("advice.generate_advice_text", "returned")>>)

(* The advice step with the handler of lines 277-279 left out: an         *)
(* exception of the translation or find_solution call leaves               *)
(* _generate_ml_advice and process_audio's try block.                      *)
RetrieveUnguarded ==
    /\ pc = "retrieve"
    /\ \E english \in QueryTranslations(translation_mock, Lower(locals.transcript)) :
       \E report \in SimilarityReports(knowledge_base, english.value) :
       \E draw \in DrawsFor(knowledge_base, english, report, Returned(<<>>)) :
          IF english.raised \/ report.failed
          THEN /\ locals' = locals
               /\ calls' = calls
                     \o <<Called("advice.translate", ReturnOutcome(english))>>
                     \o (IF english.raised THEN <<>>
                         ELSE <<Called("advice.find_solution", "raised")>>)
               /\ exc' = [stage |-> "retrieve", msg |-> <<"ml service failed">>]
               /\ pc' = "finally"
          ELSE /\ locals' = [locals EXCEPT !.advice =
                      generate_ml_advice(Lower(locals.transcript), TRUE,
                          knowledge_base, english, report,
                          Returned(<<>>), draw.advice_number, draw.pick)]
               /\ calls' = calls \o advice_calls(Lower(locals.transcript),
                                  knowledge_base, english, report, Returned(<<>>))
               /\ exc' = exc
               /\ pc' = "translate_out"
    /\ UNCHANGED <<knowledge_base, rvars, avars, use_mock, speech_mock, payload,
                   temp_file_path, temp_exists, res, prev_failure>>

(* Lines 118-121: advice = self._generate_ml_advice(transcript.lower()).   *)
(* self.ml_service is set whenever use_mock is false.                      *)
Retrieve ==
    /\ pc = "retrieve"
    /\ \E english \in QueryTranslations(translation_mock, Lower(locals.transcript)) :
       \E report \in SimilarityReports(knowledge_base, english.value) :
       \E fallback \in (IF english.raised \/ report.failed
                        THEN QueryTranslations(translation_mock, Lower(locals.transcript))
                        ELSE { Returned(<<>>) }) :
       \E draw \in DrawsFor(knowledge_base, english, report, fallback) :
          /\ locals' = [locals EXCEPT !.advice =
                 generate_ml_advice(Lower(locals.transcript), TRUE,
                     knowledge_base, english, report,
                     fallback, draw.advice_number, draw.pick)]
          /\ calls' = calls \o advice_calls(Lower(locals.transcript),
                                  knowledge_base, english, report, fallback)
    /\ pc' = "translate_out"
    /\ UNCHANGED <<knowledge_base, rvars, avars, use_mock, speech_mock, payload,
                   temp_file_path, temp_exists, exc, res, prev_failure>>

(* Lines 123-126: translate the advice to isiZulu. *)
TranslateOut ==
    /\ pc = "translate_out"
    /\ \E t \in Translations(translation_mock, locals.advice, "zu") :
          /\ calls' = Append(calls, Called("translate_out", ReturnOutcome(t)))
          /\ IF t.raised
             THEN /\ exc' = [stage |-> "translate_out", msg |-> <<t.msg>>]
                  /\ locals' = locals
                  /\ pc' = "finally"
             ELSE /\ exc' = exc
                  /\ locals' = [locals EXCEPT !.advice_zulu = t.value]
                  /\ pc' = "synthesize_zulu"
    /\ UNCHANGED <<knowledge_base, rvars, avars, use_mock, speech_mock, payload,
                   temp_file_path, temp_exists, res, prev_failure>>

(* The isiZulu synthesis call outside the try of line 134: an exception    *)
(* of the adapter leaves process_audio through the outer handler.          *)
SynthesizeZuluUnguarded ==
    /\ pc = "synthesize_zulu"
    /\ \E o \in SynthesisOutcomes :
          /\ calls' = Append(calls, Called("synthesize_zulu", o))
          /\ IF o = "raised"
             THEN /\ exc' = [stage |-> "synthesize_zulu", msg |-> <<"tts failed">>]
                  /\ locals' = locals
                  /\ pc' = "finally"
             ELSE /\ exc' = exc
                  /\ locals' = [locals EXCEPT !.audio_data = o]
                  /\ pc' = "synthesize_english"
    /\ UNCHANGED <<knowledge_base, rvars, avars, use_mock, speech_mock, payload,
                   temp_file_path, temp_exists, res, prev_failure>>

(* Lines 130-137: the isiZulu synthesis call.  An exception is caught at   *)
(* line 142, which also skips the English call.                            *)
SynthesizeZulu ==
    /\ pc = "synthesize_zulu"
    /\ \E o \in SynthesisOutcomes :
          /\ calls' = Append(calls, Called("synthesize_zulu", o))
          /\ IF o = "raised"
             THEN /\ locals' = locals
                  /\ pc' = "finally"
             ELSE /\ locals' = [locals EXCEPT !.audio_data = o]
                  /\ pc' = "synthesize_english"
    /\ UNCHANGED <<knowledge_base, rvars, avars, use_mock, speech_mock, payload,
                   temp_file_path, temp_exists, exc, res, prev_failure>>

(* Lines 139-144: the English synthesis call. *)
SynthesizeEnglish ==
    /\ pc = "synthesize_english"
    /\ \E o \in SynthesisOutcomes :
          /\ calls' = Append(calls, Called("synthesize_english", o))
          /\ locals' = IF o = "raised" THEN locals
                       ELSE [locals EXCEPT !.english_audio_data = o]
    /\ pc' = "finally"
    /\ UNCHANGED <<knowledge_base, rvars, avars, use_mock, speech_mock, payload,
                   temp_file_path, temp_exists, exc, res, prev_failure>>

(* The finally clause without the handler of line 168: a failing          *)
(* os.unlink replaces whatever the run was returning or raising.           *)
FinallyUnlinkRaises ==
    /\ pc = "finally"
    /\ \E unlinked \in BOOLEAN :
          /\ temp_exists' = IF temp_file_path /\ temp_exists THEN ~unlinked
                            ELSE temp_exists
          /\ IF temp_file_path /\ temp_exists /\ ~unlinked
             THEN /\ exc' = [stage |-> "cleanup", msg |-> <<"Permission denied">>]
                  /\ res' = res
                  /\ pc' = "except"
             ELSE /\ exc' = exc
                  /\ IF exc = NoException
                     THEN /\ res' = success_result(locals)
                          /\ pc' = "done"
                     ELSE /\ res' = res
                          /\ pc' = "except"
    /\ UNCHANGED <<knowledge_base, rvars, avars, use_mock, speech_mock, payload,
                   temp_file_path, locals, calls, prev_failure>>

(* Lines 146-169: the finally clause unlinks the file when temp_file_path  *)
(* is bound and the file exists; a failing unlink is caught.  Then the     *)
(* success result is returned, or the exception goes on to line 171.       *)
Finally ==
    /\ pc = "finally"
    /\ \E unlinked \in BOOLEAN :
          temp_exists' = IF temp_file_path /\ temp_exists THEN ~unlinked
                         ELSE temp_exists
    /\ IF exc = NoException
       THEN /\ res' = success_result(locals)
            /\ pc' = "done"
       ELSE /\ res' = res
            /\ pc' = "except"
    /\ UNCHANGED <<knowledge_base, rvars, avars, use_mock, speech_mock, payload,
                   temp_file_path, exc, locals, calls, prev_failure>>

(* The handler of line 171 returning what the run had computed when the    *)
(* exception was raised, as a success result.                              *)
ExceptReturnsLocals ==
    /\ pc = "except"
    /\ res' = success_result(locals)
    /\ pc' = "done"
    /\ UNCHANGED <<knowledge_base, rvars, avars, use_mock, speech_mock, payload,
                   temp_file_path, temp_exists, exc, locals, calls, prev_failure>>

(* Lines 171-187: the failure result. *)
Except ==
    /\ pc = "except"
    /\ res' = failure_result(exc)
    /\ pc' = "done"
    /\ UNCHANGED <<knowledge_base, rvars, avars, use_mock, speech_mock, payload,
                   temp_file_path, temp_exists, exc, locals, calls, prev_failure>>

(* voice_query line 729: the next request starts a new run; the adapters   *)
(* keep their state.                                                       *)
NextRequest ==
    /\ pc = "done"
    /\ prev_failure' = IF res.success THEN prev_failure
                       ELSE [cause |-> exc.stage, result |-> res]
    /\ pc' = "idle"
    /\ payload' = NoPayload
    /\ temp_file_path' = FALSE
    /\ temp_exists' = FALSE
    /\ exc' = NoException
    /\ locals' = NoLocals
    /\ calls' = <<>>
    /\ res' = NoResult
    /\ UNCHANGED <<knowledge_base, rvars, avars, use_mock, speech_mock>>

Next ==
    \/ ProcessAudio
    \/ Decode
    \/ SaveTempFile
    \/ Transcribe
    \/ TranslateIn
    \/ Retrieve
    \/ TranslateOut
    \/ SynthesizeZulu
    \/ SynthesizeEnglish
    \/ Finally
    \/ Except

(* One request. *)
Spec == InitPipeline /\ [][Next]_vars

(* voice_query (lines 712-746): the status of the answer to a request that *)
(* carries no JSON body, no audio field, an empty audio field, or audio    *)
(* for which process_audio reported success or not.                        *)
voice_query_status(request, success) ==
    IF request = "no_json" THEN 400
    ELSE IF request = "no_audio" THEN 400
    ELSE IF request = "empty_audio" THEN 400
    ELSE IF success THEN 200 ELSE 500

RejectedRequests == {"no_json", "no_audio", "empty_audio"}

(* Lines 712-724: the request is answered before process_audio is called. *)
VoiceQueryRejects ==
    /\ pc = "idle"
    /\ \E request \in RejectedRequests :
          response' = [request |-> request,
                       status |-> voice_query_status(request, FALSE)]
    /\ pc' = "responded"
    /\ UNCHANGED <<knowledge_base, rvars, use_mock, speech_mock, payload,
                   temp_file_path, temp_exists, exc, locals, calls, res,
                   prev_failure, translation_mock, tts_mock, adapter_out, uvars>>

(* Lines 729-746: the result of process_audio is answered with 200 or 500. *)
VoiceQueryReturns ==
    /\ pc = "done"
    /\ response' = [request |-> "audio",
                    status |-> voice_query_status("audio", res.success)]
    /\ pc' = "responded"
    /\ UNCHANGED <<knowledge_base, rvars, use_mock, speech_mock, payload,
                   temp_file_path, temp_exists, exc, locals, calls, res,
                   prev_failure, translation_mock, tts_mock, adapter_out, uvars>>

NextVoiceQuery == Next \/ VoiceQueryRejects \/ VoiceQueryReturns

(* One request to /voice-query. *)
SpecVoiceQuery == InitPipeline /\ [][NextVoiceQuery]_vars

NextRuns == Next \/ NextRequest

(* Requests one after the other. *)
SpecRuns == InitPipeline /\ [][NextRuns]_vars

(***************************************************************************)
(* _generate_keyword_advice as a process: one call on a text.              *)
(***************************************************************************)
KeywordVocabulary ==
    { <<"z","i","f","o">>, <<"i","z","i","t","s","h","a","l","o">>,
      <<"N","i","s","e","l","a">>, <<"k","h","u","n","i">>,
      <<"u","s","i","z","o">>, <<"m","a","n","j","e">> }

(* "ngicela usizo lwami manje": more than three words, no keyword *)
LongZuluText ==
    <<"n","g","i","c","e","l","a"," ","u","s","i","z","o"," ","l","w","a","m","i"," ","m","a","n","j","e">>

(* "khuni zifo izitshalo": three keywords, of priority 3, 1 and 1 *)
MixedZuluText ==
    <<"k","h","u","n","i"," ","z","i","f","o"," ","i","z","i","t","s","h","a","l","o">>

KeywordTexts ==
    { JoinWith(ws, <<" ">>) :
        ws \in UNION { [1..n -> KeywordVocabulary] : n \in 0..MaxWords } }
    \cup { LongZuluText, MixedZuluText }

InitKeywordAdvice ==
    /\ knowledge_base \in KnowledgeBases
    /\ query \in KeywordTexts
    /\ rpc = "keyword"
    /\ sklearn = "notrun"
    /\ scores = <<>>
    /\ solution = NoMatch
    /\ vectorizer = AnyFit
    /\ answers = NoAnswers
    /\ advice_out = <<>>
    /\ use_mock \in BOOLEAN
    /\ speech_mock = FALSE
    /\ pc = "idle"
    /\ payload = NoPayload
    /\ temp_file_path = FALSE
    /\ temp_exists = FALSE
    /\ exc = NoException
    /\ locals = NoLocals
    /\ calls = <<>>
    /\ res = NoResult
    /\ prev_failure = NoFailure
    /\ translation_mock \in BOOLEAN
    /\ tts_mock = FALSE
    /\ adapter_out = NoAdapterCall
    /\ response = NoResponse
    /\ UsersIdle

(* self._generate_keyword_advice(query): self.ml_service is None under     *)
(* use_mock (line 71); translate_text is reached only at line 392.         *)
GenerateKeywordAdvice ==
    /\ rpc = "keyword"
    /\ \E b \in BackendsAsked(translation_mock, query, EnglishTexts),
          advice_number \in AdviceNumbers :
          LET translated == translate_text(translation_mock, b, query)
          IN  \E pick \in 1..Len(advice_class(translated.value).variants) :
                 /\ advice_out' =
                        generate_keyword_advice(query, ~use_mock, translated,
                                                advice_number, pick)
                 /\ adapter_out' =
                        IF KeywordMatched(query) \/ use_mock
                        THEN adapter_out
                        ELSE [call |-> "translate_text", text |-> query,
                              mock_mode |-> translation_mock, backend |-> b,
                              asked |-> translate_asks_backend(translation_mock,
                                                               query),
                              raised |-> translated.raised,
                              value |-> translated.value]
    /\ rpc' = "advised"
    /\ UNCHANGED <<knowledge_base, query, sklearn, scores, solution, vectorizer,
                   answers, pvars, translation_mock, tts_mock, response, uvars>>

NextKeywordAdvice == GenerateKeywordAdvice

SpecKeywordAdvice == InitKeywordAdvice /\ [][NextKeywordAdvice]_vars

(***************************************************************************)
(* User accounts (users_db, the session, the admin routes).                *)
(***************************************************************************)
Secret == <<"s", "e", "c", "r", "e", "t">>

RawEmails == {<<"r">>, <<"a">>, <<" ", "A">>, <<"b">>}

Passwords == {Secret, <<"a", "b", "c">>}

RequestUserIds == {"1", "2", "3", "4"}

RequestRoles == {"user", "admin", "root"}

MinPasswordLength == 6

(* data/users.json at startup: absent, or holding the one admin. *)
load_users ==
    { <<>>,
      <<[id |-> "1", email |-> <<"r">>, password |-> Secret,
         role |-> "admin"]>> }

HasUser(db, email) == \E i \in 1..Len(db) : db[i].email = email

(* users_db.get(email), on a db that holds the email *)
UserOf(db, email) == db[CHOOSE i \in 1..Len(db) : db[i].email = email]

(* Lines 547-560: the record of a new user. *)
user_data_first_is_admin(db, email, password) ==
    [id |-> ToString(Len(db) + 1), email |-> email, password |-> password,
     role |-> IF Len(db) = 0 THEN "admin" ELSE "user"]

user_data(db, email, password) ==
    [id |-> ToString(Len(db) + 1), email |-> email, password |-> password,
     role |-> "user"]

(* Lines 520-566: users_db after POST /register. *)
register_post(db, complete, raw_email, password, confirm_password) ==
    LET email == Lower(Strip(raw_email))
    IN  IF ~complete \/ email = <<>> THEN db
        ELSE IF password # confirm_password THEN db
        ELSE IF Len(password) < MinPasswordLength THEN db
        ELSE IF HasUser(db, email) THEN db
        ELSE Append(db, user_data(db, email, password))

(* Lines 491-512: the session after POST /login. *)
login_post(db, session, raw_email, password) ==
    LET email == Lower(Strip(raw_email))
    IN  IF email = <<>> \/ password = <<>> THEN session
        ELSE IF HasUser(db, email) /\ UserOf(db, email).password = password
        THEN [logged_in |-> TRUE, user_id |-> UserOf(db, email).id,
              user_email |-> email, user_role |-> UserOf(db, email).role]
        ELSE session

(* Lines 454-465: whether the decorated route is entered. *)
admin_required_session_role(db, session) ==
    /\ session.logged_in
    /\ session.user_role = "admin"

admin_required(db, session) ==
    /\ session.logged_in
    /\ HasUser(db, session.user_email)
    /\ UserOf(db, session.user_email).role = "admin"

(* The loops of lines 657-661 and 687-690: the first user, in the order   *)
(* of the dict, whose id is user_id; 0 when there is none.                 *)
find_user_by_id(db, user_id) ==
    IF \E i \in 1..Len(db) : db[i].id = user_id
    THEN CHOOSE i \in 1..Len(db) :
             /\ db[i].id = user_id
             /\ \A j \in 1..(i - 1) : db[j].id # user_id
    ELSE 0

(* Lines 651-674: users_db after DELETE /admin/users/<user_id>. *)
delete_user(db, session, user_id) ==
    LET found == find_user_by_id(db, user_id)
    IN  IF found = 0 THEN db
        ELSE IF session.user_id = user_id THEN db
        ELSE SubSeq(db, 1, found - 1) \o SubSeq(db, found + 1, Len(db))

(* Lines 676-698: users_db after POST /admin/users/<user_id>/role. *)
update_user_role(db, user_id, new_role) ==
    LET found == find_user_by_id(db, user_id)
    IN  IF new_role \notin {"user", "admin"} THEN db
        ELSE IF found = 0 THEN db
        ELSE [db EXCEPT ![found].role = new_role]

UsersUntouched ==
    UNCHANGED <<knowledge_base, rvars, pvars, translation_mock, tts_mock,
                adapter_out, response>>

InitUsers ==
    /\ knowledge_base \in KnowledgeBases
    /\ RetrievalIdle
    /\ use_mock = FALSE
    /\ speech_mock = FALSE
    /\ pc = "idle"
    /\ payload = NoPayload
    /\ temp_file_path = FALSE
    /\ temp_exists = FALSE
    /\ exc = NoException
    /\ locals = NoLocals
    /\ calls = <<>>
    /\ res = NoResult
    /\ prev_failure = NoFailure
    /\ translation_mock = FALSE
    /\ tts_mock = FALSE
    /\ adapter_out = NoAdapterCall
    /\ response = NoResponse
    /\ users_db \in load_users
    /\ sessions = [c \in Clients |-> NoSession]
    /\ access = NoAccess

RegisterPost ==
    /\ access = NoAccess
    /\ \E complete \in BOOLEAN, raw_email \in RawEmails,
          password \in Passwords, confirm_password \in Passwords :
          users_db' = register_post(users_db, complete, raw_email, password,
                                    confirm_password)
    /\ UNCHANGED <<sessions, access>>
    /\ UsersUntouched

LoginPost ==
    /\ access = NoAccess
    /\ \E c \in Clients, raw_email \in RawEmails, password \in Passwords :
          sessions' = [sessions EXCEPT
                          ![c] = login_post(users_db, sessions[c], raw_email,
                                            password)]
    /\ UNCHANGED <<users_db, access>>
    /\ UsersUntouched

(* Lines 568-571. *)
Logout ==
    /\ access = NoAccess
    /\ \E c \in Clients : sessions' = [sessions EXCEPT ![c] = NoSession]
    /\ UNCHANGED <<users_db, access>>
    /\ UsersUntouched

(* A request to a route under @admin_required reaches the decorator. *)
AdminRequired ==
    /\ access = NoAccess
    /\ \E c \in Clients :
          access' = [client |-> c,
                     passed |-> admin_required(users_db, sessions[c])]
    /\ UNCHANGED <<users_db, sessions>>
    /\ UsersUntouched

(* Lines 456-462: the redirect of a request that did not pass. *)
AccessDenied ==
    /\ access # NoAccess
    /\ ~access.passed
    /\ access' = NoAccess
    /\ UNCHANGED <<users_db, sessions>>
    /\ UsersUntouched

(* Lines 600-649: the admin pages, which only read users_db. *)
AdminPage ==
    /\ access.passed
    /\ access' = NoAccess
    /\ UNCHANGED <<users_db, sessions>>
    /\ UsersUntouched

DeleteUser ==
    /\ access.passed
    /\ \E user_id \in RequestUserIds :
          users_db' = delete_user(users_db, sessions[access.client], user_id)
    /\ access' = NoAccess
    /\ UNCHANGED sessions
    /\ UsersUntouched

UpdateUserRole ==
    /\ access.passed
    /\ \E user_id \in RequestUserIds, new_role \in RequestRoles :
          users_db' = update_user_role(users_db, user_id, new_role)
    /\ access' = NoAccess
    /\ UNCHANGED sessions
    /\ UsersUntouched

NextUsers ==
    \/ RegisterPost
    \/ LoginPost
    \/ Logout
    \/ AdminRequired
    \/ AccessDenied
    \/ AdminPage
    \/ DeleteUser
    \/ UpdateUserRole

SpecUsers == InitUsers /\ [][NextUsers]_vars

(***************************************************************************)
(* Properties of the user accounts.                                        *)
(***************************************************************************)
(* C27: after any sequence of registrations and admin deletions no two     *)
(* users of users_db have the same id, so that a request addressed by id   *)
(* acts on the one user that was given that id.                            *)
C27_UserIdsUnique ==
    \A i, j \in 1..Len(users_db) :
        users_db[i].id = users_db[j].id => i = j

NoAdmin == \A i \in 1..Len(users_db) : users_db[i].role # "admin"

(* C28: from a users_db without an admin, no step of register, login,      *)
(* logout, delete_user or update_user_role gives a user the role admin,    *)
(* and no request passes admin_required.                                   *)
C28_NoEscalationWithoutAdmin ==
    [][NoAdmin => (NoAdmin' /\ ~access'.passed)]_vars

C28_Witness ==
    /\ NoAdmin
    /\ Len(users_db) >= 2
    /\ access # NoAccess
    /\ sessions[access.client].logged_in
    /\ ~access.passed

(* C29: a request passes admin_required exactly when its session is        *)
(* logged in and the user stored now under the session's email has the     *)
(* role admin; the role copied into the session at login plays no part,    *)
(* so a demoted or deleted user is denied although the session lives on.   *)
C29_CurrentRoleDecides ==
    access # NoAccess =>
        LET session == sessions[access.client]
        IN  access.passed <=>
                /\ session.logged_in
                /\ \E i \in 1..Len(users_db) :
                       /\ users_db[i].email = session.user_email
                       /\ users_db[i].role = "admin"

C29_Witness ==
    /\ access # NoAccess
    /\ ~access.passed
    /\ sessions[access.client].logged_in
    /\ sessions[access.client].user_role = "admin"
    /\ \A i \in 1..Len(users_db) :
           users_db[i].email # sessions[access.client].user_email

(***************************************************************************)
(* Properties of _generate_keyword_advice.                                 *)
(***************************************************************************)
MatchedKeywords ==
    { k \in 1..Len(advice_map) : Contains(Lower(query), advice_map[k].keyword) }

DefaultAdviceTexts == { <<default_advices[i]>> : i \in 1..Len(default_advices) }

(* C30: when keywords of the table occur in the lower-cased text, the      *)
(* advice returned is that of the matched keyword with the smallest        *)
(* priority number and, among those, the one declared first; a default     *)
(* advice text is returned only when no keyword matched and the advice     *)
(* generator is unavailable or its call failed.                            *)
C30_PriorityThenDeclarationOrder ==
    rpc = "advised" =>
        /\ MatchedKeywords # {} =>
               \E k \in MatchedKeywords :
                  /\ advice_out = <<advice_map[k].advice>>
                  /\ \A m \in MatchedKeywords :
                         /\ advice_map[k].priority <= advice_map[m].priority
                         /\ advice_map[k].priority = advice_map[m].priority
                                => k <= m
        /\ advice_out \in DefaultAdviceTexts =>
               /\ MatchedKeywords = {}
               /\ use_mock \/ adapter_out.raised

C30_Witness ==
    /\ rpc = "advised"
    /\ \E k, m, n \in MatchedKeywords :
          /\ k < m
          /\ advice_map[k].priority = advice_map[m].priority
          /\ advice_map[n].priority > advice_map[k].priority
          /\ advice_out = <<advice_map[k].advice>>

(***************************************************************************)
(* Properties of process_audio.                                            *)
(***************************************************************************)
HasCall(name, outcome) ==
    \E i \in 1..Len(calls) : calls[i] = Called(name, outcome)

SynthesisCalls == {"synthesize_zulu", "synthesize_english"}

ResultIsFallback ==
    /\ res.success
    /\ res.transcript = FallbackTranscript
    /\ res.translation = FallbackTranscript
    /\ res.advice = FallbackAdvice
    /\ res.advice_zulu = FallbackAdviceZulu

ResultIsApology ==
    /\ ~res.success
    /\ res.transcript = <<>>
    /\ res.translation = <<>>
    /\ res.advice = ApologyAdvice
    /\ res.advice_zulu = ApologyAdviceZulu
    /\ res.audio = "None"

(* C1: when transcribe_audio returns an empty or whitespace-only           *)
(* transcript the run raises nothing, calls nothing but the synthesis      *)
(* adapter afterwards (no translation, no advice engine), and returns      *)
(* success = true with the four fixed fallback texts.                      *)
C1_BlankTranscriptFallsBack ==
    HasCall("transcribe", "blank") =>
        /\ exc = NoException
        /\ \A i \in 2..Len(calls) : calls[i].call \in SynthesisCalls
        /\ pc \in {"synthesize_zulu", "synthesize_english", "finally", "done"}
        /\ pc = "done" => ResultIsFallback

C1_Witness ==
    /\ pc = "done"
    /\ HasCall("transcribe", "blank")
    /\ HasCall("synthesize_english", "bytes")
    /\ ResultIsFallback

TooSmall == payload.decodes /\ payload.size < MIN_AUDIO_BYTES

C3_TempFileReleased ==
    pc = "done" => ~temp_exists

(* C4: a run that reached synthesis returns success = true whatever the    *)
(* two synthesize_speech calls do; an artifact is the encoded audio when   *)
(* its call returned bytes and null when its call returned None, raised or *)
(* was not made.                                                           *)
C4_SynthesisNeverAborts ==
    (pc = "done" /\ \E i \in 1..Len(calls) : calls[i].call = "synthesize_zulu") =>
        /\ res.success
        /\ res.audio =
             (IF HasCall("synthesize_zulu", "bytes") THEN "base64" ELSE "None")
        /\ res.english_audio =
             (IF HasCall("synthesize_english", "bytes") THEN "base64" ELSE "None")

C4_Witness ==
    /\ pc = "done"
    /\ HasCall("synthesize_zulu", "bytes")
    /\ HasCall("synthesize_english", "raised")
    /\ res.success
    /\ res.audio = "base64"
    /\ res.english_audio = "None"

StageAdapters == {"transcribe", "translate_in", "translate_out"}

(* C5: once the transcription call or a pipeline translation call has      *)
(* raised, that call is the last adapter call of the run, the run is on    *)
(* its way out, and what it returns is success = false with empty          *)
(* transcript and translation, the two fixed apologies and no audio.       *)
C5_ErrorIsAbsorbing ==
    \A i \in 1..Len(calls) :
        (calls[i].call \in StageAdapters /\ calls[i].outcome = "raised") =>
            /\ i = Len(calls)
            /\ pc \in {"finally", "except", "done"}
            /\ pc = "done" => ResultIsApology

C5_Witness ==
    /\ pc = "done"
    /\ HasCall("transcribe", "raised")
    /\ Len(calls) = 1
    /\ exc.stage = "transcribe"
    /\ ResultIsApology

(* C6: a failed run returns the same result as an earlier failed run whose *)
(* exception was raised at the same place, whatever the two messages were. *)
C6_FailureResultHidesExceptionText ==
    (pc = "done" /\ ~res.success /\ prev_failure.cause = exc.stage) =>
        res = prev_failure.result

CategoryTemplates(kb) ==
    UNION { { solution_advice(c, kb[c][k]) : k \in 1..Len(kb[c]) } :
            c \in TemplateCategories }

IsGeneratorOutput(advice) == Len(advice) > 0 /\ advice[1] = "Advice #"

IsKeywordAdvice(advice) ==
    \/ \E k \in 1..Len(advice_map) : advice = <<advice_map[k].advice>>
    \/ \E k \in 1..Len(default_advices) : advice = <<default_advices[k]>>
    \/ IsGeneratorOutput(advice)

(* C7: once _generate_ml_advice has run, the advice is not empty and no    *)
(* exception has left it; it is a category template when find_solution     *)
(* returned a match, the output of generate_advice_text when it returned   *)
(* no match, and the keyword advice when the translation or find_solution  *)
(* raised.                                                                 *)
C7_AdviceAlwaysComposed ==
    (\E i \in 1..Len(calls) : calls[i].call = "advice.translate") =>
        /\ TextLen(locals.advice) > 0
        /\ exc.stage \in {"none", "translate_out"}
        /\ HasCall("advice.find_solution", "match") =>
               locals.advice \in CategoryTemplates(knowledge_base)
        /\ HasCall("advice.find_solution", "no_match") =>
               IsGeneratorOutput(locals.advice)
        /\ (HasCall("advice.translate", "raised")
              \/ HasCall("advice.find_solution", "raised")) =>
               IsKeywordAdvice(locals.advice)

C7_Witness ==
    /\ pc = "done"
    /\ HasCall("advice.find_solution", "raised")
    /\ res.success
    /\ IsKeywordAdvice(res.advice)

C18_SynthesisCallsIndependent ==
    (pc = "done" /\ \E i \in 1..Len(calls) : calls[i].call = "synthesize_zulu") =>
        /\ \E j \in 1..Len(calls) : calls[j].call = "synthesize_english"
        /\ HasCall("synthesize_english", "bytes") => res.english_audio = "base64"

InboundTranslations ==
    {"translate_in", "advice.translate", "advice.fallback_translate"}

(* The stage a call of the log belongs to. *)
StageOf(call) ==
    IF call = "transcribe" THEN 2
    ELSE IF call = "translate_in" THEN 3
    ELSE IF call = "translate_out" THEN 5
    ELSE IF call \in SynthesisCalls THEN 6
    ELSE 4

(* The calls of a run are made stage after stage, and the only stages left *)
(* out are those between a blank transcription and synthesis.              *)
CallsInStageOrder ==
    /\ \A i, j \in 1..Len(calls) :
          i < j => StageOf(calls[i].call) <= StageOf(calls[j].call)
    /\ \A i \in 2..Len(calls) :
          LET before == StageOf(calls[i-1].call)
              here == StageOf(calls[i].call)
          IN  \/ here <= before + 1
              \/ calls[i-1] = Called("transcribe", "blank") /\ here = 6
    /\ \A i, j \in 1..Len(calls) :
          (calls[i].call = calls[j].call
             /\ calls[i].call \in {"transcribe", "translate_in", "translate_out"})
            => i = j

(* C19: the calls of a run are made in the order of the stages, no stage   *)
(* twice, the only skip being from a blank transcription to synthesis, and *)
(* the translation to English is called exactly once in a run that went    *)
(* past transcription with a transcript.                                   *)
C19_StagesInOrderOnce ==
    /\ CallsInStageOrder
    /\ Cardinality({ i \in 1..Len(calls) :
                       calls[i].call \in InboundTranslations }) <= 1
    /\ (pc = "done" /\ HasCall("transcribe", "text") /\ res.success) =>
           Cardinality({ i \in 1..Len(calls) :
                           calls[i].call \in InboundTranslations }) = 1

(* C15: a request whose audio is missing or empty, does not decode, or     *)
(* decodes to fewer than 100 bytes is answered with a status between 400   *)
(* and 499, and no adapter was called for it.                              *)
C15_BadAudioIsClientError ==
    (pc = "responded"
       /\ \/ response.request \in RejectedRequests
          \/ ~payload.decodes
          \/ payload.size < MIN_AUDIO_BYTES) =>
        /\ response.status \in 400..499
        /\ calls = <<>>

(* C20: no step of a run writes a mode flag of an adapter, which the runs  *)
(* after it read.                                                          *)
C20_RunsShareNoState ==
    [][/\ speech_mock' = speech_mock
       /\ translation_mock' = translation_mock
       /\ tts_mock' = tts_mock]_vars

(* C21: no adapter is called twice for the same stage of a run, and a run  *)
(* in which an adapter call failed still returns success = true, with the  *)
(* fallback output in place of the failed call's.                          *)
C21_NoRetryFailureDegrades ==
    /\ \A i, j \in 1..Len(calls) :
          (calls[i].call = calls[j].call
             /\ calls[i].call \in StageAdapters \cup SynthesisCalls) => i = j
    /\ (pc = "done" /\ \E i \in 1..Len(calls) : calls[i].outcome = "raised") =>
           res.success

(* C22: what the cleanup step leaves (the exception in flight, the texts   *)
(* and audio of the run, the result returned and where the run goes next)  *)
(* is fixed by the state before it, whether os.unlink succeeds or raises.  *)
C22_CleanupFailureChangesNothing ==
    [][pc = "finally" =>
         /\ exc' = exc
         /\ locals' = locals
         /\ calls' = calls
         /\ pc' = (IF exc = NoException THEN "done" ELSE "except")
         /\ res' = (IF exc = NoException THEN success_result(locals) ELSE res)]_vars

C22_Witness ==
    /\ pc = "done"
    /\ temp_file_path /\ temp_exists
    /\ res.success
    /\ res = success_result(locals)
    /\ HasCall("synthesize_zulu", "bytes")
    /\ res.audio = "base64"

(* The sentence for a matched item with every list-valued field joined by *)
(* ", " in list order.                                                     *)
JoinedAdvice(category, item) ==
    IF category = "planting"
    THEN <<"Planting advice for ", Get(item, "crop", "crops"),
           ": Plant in ", Get(item, "season", "appropriate season"),
           ". Spacing: ", Get(item, "spacing", "follow guidelines"), ". ">>
         \o CommaJoin(Get(item, "tips", <<"Follow best practices">>))
         \o <<".">>
    ELSE solution_advice(category, item)

(* C23: when find_solution returned a match, the advice is the template    *)
(* sentence of the item's category, in which every list-valued field of    *)
(* the item stands as its elements joined by ", " in list order.           *)
C23_ListFieldsJoinedInOrder ==
    HasCall("advice.find_solution", "match") =>
        \E c \in TemplateCategories :
        \E k \in 1..Len(knowledge_base[c]) :
            locals.advice = JoinedAdvice(c, knowledge_base[c][k])

(***************************************************************************)
(* Properties of find_solution.                                            *)
(***************************************************************************)
DiseaseWord == <<"d","i","s","e","a","s","e">>

PestWord == <<"p","e","s","t">>

Triggered(q) == { k \in 1..Len(keywords) : Contains(q, keywords[k].keyword) }

(* C8: every query that contains "disease" in any letter case is answered  *)
(* with category "diseases" and confidence exactly 0.8, whatever the       *)
(* optional pest/disease file contributed to the knowledge base.           *)
C8_DiseaseQueryMatchesDiseases ==
    (rpc = "returned" /\ Contains(Lower(query), DiseaseWord))
        => /\ solution.category = "diseases"
           /\ solution.confidence = DIRECT_CONFIDENCE

(* A query that spells the word with a capital letter, answered on a       *)
(* knowledge base that holds an entry of the external file.                *)
C8_Witness ==
    /\ rpc = "returned"
    /\ Contains(Lower(query), DiseaseWord)
    /\ ~Contains(query, DiseaseWord)
    /\ Len(knowledge_base.diseases) = 3
    /\ solution.category = "diseases"

(* C9: when a trigger occurs in the query, the answer is the first item of *)
(* the category of the trigger that comes first in the table, with         *)
(* confidence 0.8, and the similarity stage does not run.                  *)
C9_TableOrderDecides ==
    (rpc = "returned" /\ Triggered(normalize(query)) # {})
        => LET k == CHOOSE n \in Triggered(normalize(query)) :
                        \A m \in Triggered(normalize(query)) : n <= m
           IN  /\ solution.category = keywords[k].category
               /\ solution.solution = knowledge_base[keywords[k].category][1]
               /\ solution.confidence = DIRECT_CONFIDENCE
               /\ sklearn = "notrun"

(* "pest" stands before "disease" in the query, "disease" before "pest" in *)
(* the table: the answer is a disease.                                     *)
C9_Witness ==
    /\ rpc = "returned"
    /\ Contains(normalize(query), PestWord)
    /\ Contains(normalize(query), DiseaseWord)
    /\ FirstPos(normalize(query), PestWord) < FirstPos(normalize(query), DiseaseWord)
    /\ solution.category = "diseases"
    /\ sklearn = "notrun"

(* C10: with no trigger in the query the answer is the item of highest     *)
(* similarity among those strictly above 0.1, the first such item in       *)
(* category-then-insertion order on a tie, and no match when no item is    *)
(* strictly above 0.1.                                                     *)
C10_BestSimilarityAboveThreshold ==
    (rpc = "returned" /\ Triggered(normalize(query)) = {})
        => LET items == AllItems(knowledge_base)
               above == { i \in DOMAIN scores : scores[i] > SIM_THRESHOLD }
           IN  IF above = {} THEN ~IsMatch(solution)
               ELSE LET b == CHOOSE i \in above : \A j \in above :
                                 \/ scores[j] < scores[i]
                                 \/ scores[j] = scores[i] /\ i <= j
                    IN  /\ solution.category = items[b].category
                        /\ solution.solution = items[b].solution
                        /\ solution.confidence = scores[b]

(* Two items share the highest similarity and the earlier one is returned. *)
C10_Witness ==
    /\ rpc = "returned"
    /\ sklearn = "ok"
    /\ \E i, j \in DOMAIN scores :
          /\ i < j
          /\ scores[i] = scores[j]
          /\ scores[i] > SIM_THRESHOLD
          /\ solution.solution = AllItems(knowledge_base)[i].solution
          /\ solution.solution # AllItems(knowledge_base)[j].solution

EmptyCategories == {"weather", "soil", "general"}

(* C25: in every knowledge base the loader gives, weather, soil and        *)
(* general are empty and the other five categories are not, and a match    *)
(* find_solution returns has one of those five categories.                 *)
C25_MatchedCategoryIsTemplated ==
    /\ \A c \in EmptyCategories : knowledge_base[c] = <<>>
    /\ \A c \in TemplateCategories : knowledge_base[c] # <<>>
    /\ (rpc = "returned" /\ IsMatch(solution)) =>
          solution.category \in TemplateCategories

(* A match found by similarity alone, in a knowledge base read from a file *)
(* that holds an entry of another type.                                    *)
C25_Witness ==
    /\ rpc = "returned"
    /\ sklearn = "ok"
    /\ IsMatch(solution)
    /\ solution.category = "planting"
    /\ Triggered(normalize(query)) = {}
    /\ Len(knowledge_base.diseases) = 3
    /\ knowledge_base.general = <<>>

(***************************************************************************)
(* Properties of the service over several calls.                           *)
(***************************************************************************)
(* C11: on a fixed knowledge base and fitted vectorizer, every             *)
(* find_solution call returns the category and the item that the first     *)
(* call with the same query returned (or no match, as the first did),      *)
(* whatever find_solution and generate_advice_text calls lie in between.   *)
C11_FindSolutionDeterministic ==
    (rpc \in {"returned", "generated"} /\ query \in DOMAIN answers) =>
        /\ solution.category = answers[query].first.category
        /\ solution.solution = answers[query].first.solution

C11_Witness ==
    /\ rpc = "returned"
    /\ query = Tomato
    /\ answers[Tomato].calls = 2
    /\ ScenarioC \in DOMAIN answers
    /\ IsMatch(solution)
    /\ sklearn = "ok"

ClassOrder ==
    <<"disease", "pest", "watering", "fertilizer", "planting", "weather", "soil">>

ClassNamed(name) ==
    advice_classes[CHOOSE k \in 1..Len(advice_classes) :
                       advice_classes[k].class = name]

(* The class the priority order gives a text: the first class of           *)
(* ClassOrder with a keyword inside the lower-cased text, else general.    *)
ExpectedClass(q) ==
    LET hits == { k \in 1..Len(ClassOrder) :
                    AnyWordIn(ClassNamed(ClassOrder[k]).words, Lower(q)) }
    IN  IF hits = {} THEN general_class
        ELSE ClassNamed(ClassOrder[CHOOSE k \in hits : \A j \in hits : k <= j])

(* C12: whatever random.randint and random.choice draw, the text           *)
(* generate_advice_text returns is "Advice #N: " with 1000 <= N <= 9999,   *)
(* then the phrase of the first class in the priority order with a keyword *)
(* in the lower-cased query (no phrase for general), one of the fixed      *)
(* alternatives of that class and its closing sentence.                    *)
C12_AdviceTextForm ==
    rpc = "generated" =>
        LET c == ExpectedClass(query)
            body == SubSeq(advice_out, 4, Len(advice_out))
        IN  /\ Len(advice_out) >= 5
            /\ TextLen(advice_out) > 0
            /\ advice_out[1] = "Advice #"
            /\ \E n \in 1000..9999 : advice_out[2] = ToString(n)
            /\ advice_out[3] = ": "
            /\ \E k \in 1..Len(c.variants) :
                  body = (IF c.class = "general" THEN <<>> ELSE <<c.lead>>)
                         \o <<c.variants[k], c.tail>>

C12_Witness ==
    /\ rpc = "generated"
    /\ query = <<"s","o","i","l"," ","a","n","d"," ","s","u","n">>
    /\ advice_out[2] = "9999"
    /\ advice_out[4] = "For weather considerations, "
    /\ advice_out[5] = "Use windbreaks in exposed areas"

EightCategories ==
    {"diseases", "pests", "fertilizers", "watering", "planting", "weather",
     "soil", "general"}

(* C13: the knowledge base always has its eight category keys, and no step *)
(* of a find_solution or generate_advice_text call changes it.             *)
C13_KnowledgeBaseImmutable ==
    /\ [](DOMAIN knowledge_base = EightCategories)
    /\ [][knowledge_base' = knowledge_base]_vars

C13_Witness ==
    /\ rpc = "generated"
    /\ query = ScenarioC
    /\ answers[ScenarioC].calls = 2
    /\ solution.category = "diseases"
    /\ Len(knowledge_base.diseases) = 3
    /\ knowledge_base.general = <<>>
    /\ DOMAIN knowledge_base = EightCategories

(***************************************************************************)
(* Properties of the adapters.                                             *)
(***************************************************************************)
BlankText(text) == text = <<>> \/ Strip(text) = <<>>

(* C16: a synthesize_speech call never raises: for every text, language    *)
(* code, voice gender, adapter mode and backend outcome it returns audio   *)
(* bytes or None, and it returns None for empty or whitespace-only text.   *)
C16_SynthesisNeverRaises ==
    adapter_out.call = "synthesize_speech" =>
        /\ ~adapter_out.raised
        /\ adapter_out.value \in {"bytes", "None"}
        /\ BlankText(adapter_out.text) => adapter_out.value = "None"

(* C17: a translate_text call never raises; it returns "" for empty or     *)
(* whitespace-only text in either mode, and for any other text the         *)
(* backend's translation when the adapter is not in mock mode and the      *)
(* backend answered, and the text behind the fixed marker when the adapter *)
(* is in mock mode or the backend raised.                                  *)
C17_TranslationTotal ==
    adapter_out.call = "translate_text" =>
        /\ ~adapter_out.raised
        /\ adapter_out.value =
             (IF BlankText(adapter_out.text) THEN <<>>
              ELSE IF adapter_out.mock_mode \/ adapter_out.backend.kind = "error"
              THEN TranslationMarker \o adapter_out.text
              ELSE adapter_out.backend.translatedText)

C17_Witness ==
    /\ adapter_out.call = "translate_text"
    /\ ~adapter_out.mock_mode
    /\ adapter_out.backend.kind = "error"
    /\ adapter_out.text = <<" ","a","m","a","n","z","i"," ">>
    /\ ~adapter_out.raised
    /\ adapter_out.value = TranslationMarker \o adapter_out.text

(* C24: when the recognizers answered, the English transcript is returned *)
(* only when it is not empty and either its confidence is strictly higher  *)
(* than the isiZulu one or the isiZulu transcript is empty; on equal       *)
(* confidences with both transcripts present the isiZulu one is returned;  *)
(* the result is empty exactly when both transcripts are.                  *)
C24_ZuluWinsTies ==
    (adapter_out.call = "transcribe_audio" /\ adapter_out.asked
       /\ adapter_out.backend.kind = "result") =>
        LET b == adapter_out.backend
            english == /\ b.english_transcript # <<>>
                       /\ \/ b.english_confidence > b.zulu_confidence
                          \/ b.zulu_transcript = <<>>
        IN  /\ ~adapter_out.raised
            /\ adapter_out.value =
                  (IF english THEN b.english_transcript ELSE b.zulu_transcript)
            /\ (b.english_confidence = b.zulu_confidence
                  /\ b.english_transcript # <<>> /\ b.zulu_transcript # <<>>) =>
                  adapter_out.value = b.zulu_transcript
            /\ adapter_out.value = <<>> <=>
                  (b.english_transcript = <<>> /\ b.zulu_transcript = <<>>)

C24_Witness ==
    /\ adapter_out.call = "transcribe_audio"
    /\ adapter_out.asked
    /\ adapter_out.backend.kind = "result"
    /\ adapter_out.backend.english_confidence = adapter_out.backend.zulu_confidence
    /\ adapter_out.backend.english_transcript = ScenarioC
    /\ adapter_out.backend.zulu_transcript # <<>>
    /\ ~IsBlank(adapter_out.backend.zulu_transcript)
    /\ adapter_out.value = adapter_out.backend.zulu_transcript

(* C26: a mock_mode flag that is set stays set, for each of the three      *)
(* adapters, and a call made on an adapter in mock mode does not reach the *)
(* adapter's backend.                                                      *)
C26_MockModeMonotonic ==
    /\ [](adapter_out.mock_mode => ~adapter_out.asked)
    /\ [][/\ speech_mock => speech_mock'
          /\ translation_mock => translation_mock'
          /\ tts_mock => tts_mock']_vars

(* The flag was set by a call that found the API closed, and the call      *)
(* after it is answered without the recognizers.                           *)
C26_Witness ==
    /\ speech_mock
    /\ adapter_out.call = "transcribe_audio"
    /\ adapter_out.mock_mode
    /\ adapter_out.backend.kind = "result"
    /\ ~adapter_out.asked
    /\ adapter_out.value = MockTranscription

====
